---- MODULE Spec2Model ----
(***************************************************************************)
(* Model of the module loader of BGJSV8Engine                              *)
(* (src/src/main/cpp/bgjs/BGJSV8Engine.cpp): normalize_path, getPathName,  *)
(* find_and_replace, the require closure of makeRequireFunction,           *)
(* BGJSV8Engine::require, registerModule and the host entry point          *)
(* Java_ag_boersego_bgjs_V8Engine_require; and of its exception bridge:    *)
(* forwardJNIExceptionToV8, forwardV8ExceptionToJNI, the weak callback of  *)
(* BGJSV8EngineJavaErrorHolder and the destructor; of the engine lock of   *)
(* the host entry points, of the runtime bring-up in createContext and of  *)
(* the script globals requestAnimationFrame and cancelAnimationFrame.      *)
(*                                                                         *)
(* A std::string is a sequence of one-character strings.  size_t values    *)
(* are held as their two's-complement representative (npos is -1), which   *)
(* is exact for every magnitude that occurs here, so that unsigned         *)
(* wrap-around of "length() - 5" is kept.                                  *)
(***************************************************************************)
EXTENDS Integers, Sequences, FiniteSets, TLC

\* the module loader
VARIABLES files, modules, cache, stack, pending, hostPc, lastRet,
          hostResult, evalCount, cbCalls, nextObj, calls, regs, crashed,
          firstOk

\* a path handed to normalize_path, and the results of applying it again
VARIABLES pathArg, normalized

loaderVars == <<files, modules, cache, stack, pending, hostPc, lastRet,
                hostResult, evalCount, cbCalls, nextObj, calls, regs, crashed,
                firstOk>>

pathVars == <<pathArg, normalized>>

\* the exception bridge: the host exception objects, the exception pending
\* in the host runtime, the exception propagating in script code, the
\* BGJSV8EngineJavaErrorHolder of every JavaError object, the exceptions host
\* code holds on to, the engine, where control is, and the calls of
\* forwardV8ExceptionToJNI that threw, in order, and what the last call of
\* forwardJNIExceptionToV8 returned
VARIABLES throwables, jniPending, caught, holders, known, engine, bpc,
          bridges, nFaults, nEntries, wrapRet

bridgeVars == <<throwables, jniPending, caught, holders, known, engine, bpc,
                bridges, nFaults, nEntries, wrapRet>>

\* the inbound conversion: the script exception handed to
\* forwardV8ExceptionToJNI, and what it made of it
VARIABLES excArg, raised

inboundVars == <<excArg, raised>>

\* the engine lock (the v8::Locker of the isolate): the thread that holds
\* it, 0 for none, and for every host thread the operation it is in and how
\* far it has come
VARIABLES lockOwner, threads

lockVars == <<lockOwner, threads>>

\* the bring-up of the scripting runtime in createContext: the static flag,
\* the number of times the bring-up block has run, whether a bring-up has
\* completed, the isolates created so far, where every thread is inside
\* createContext, and the number of createContext calls
VARIABLES isPlatformInitialized, bringUps, platformReady, isolates, creating,
          contexts

platformVars == <<isPlatformInitialized, bringUps, platformReady, isolates,
                  creating, contexts>>

\* the animation frame requests: the requests the host view holds, the
\* outcome of the last call of a script global, and the calls in order
VARIABLES scheduled, frameRet, frameCalls

frameVars == <<scheduled, frameRet, frameCalls>>

vars == <<loaderVars, pathVars, bridgeVars, inboundVars, lockVars,
          platformVars, frameVars>>

(***************************************************************************)
(* Bounds of the model.                                                    *)
(***************************************************************************)
\* number of host require calls in one run
MaxCalls == 3
\* number of registerModule calls in one run
MaxRegs == 2
\* number of nested module evaluations the script stack can hold before
\* the runtime raises RangeError
StackLimit == 3
\* number of segments of a path handed to normalize_path
MaxSegments == 4
\* number of host exceptions wrapped for script code in one run
MaxEnvelopes == 2
\* number of faults host code raises anew in one run
MaxFaults == 1
\* number of times the host enters script code in one run
MaxEntries == 3
\* number of call sites of a captured stack trace
MaxFrames == 2
\* number of host threads that call into one engine
MaxThreads == 2
\* number of createContext calls in one run
MaxContexts == 3
\* number of calls of requestAnimationFrame and cancelAnimationFrame in one
\* run
MaxAnimationCalls == 3

(***************************************************************************)
(* std::string helpers.                                                    *)
(***************************************************************************)
NPOS == -1

SetMin(S) == CHOOSE x \in S : \A y \in S : x <= y

SetMax(S) == CHOOSE x \in S : \A y \in S : x >= y

\* pat occurs in s at 0-based offset i
OccursAt(s, pat, i) ==
    /\ i >= 0
    /\ i + Len(pat) <= Len(s)
    /\ \A k \in 1..Len(pat) : s[i + k] = pat[k]

\* the first of the offsets hits, npos when there is none
FirstOf(hits) == IF hits = {} THEN NPOS ELSE SetMin(hits)

\* the last of the offsets hits, npos when there is none
LastOf(hits) == IF hits = {} THEN NPOS ELSE SetMax(hits)

\* std::string::find(pat, from)
Find(s, pat, from) ==
    FirstOf({i \in from..(Len(s) - Len(pat)) : OccursAt(s, pat, i)})

\* std::string::find_last_of("/")
FindLastOf(s, ch) == LastOf({i \in 0..(Len(s) - 1) : s[i + 1] = ch})

\* std::string::substr(pos)
Substr(s, pos) == SubSeq(s, pos + 1, Len(s))

\* std::string::substr(0, n)
Prefix(s, n) == SubSeq(s, 1, n)

Slash == <<"/">>
Dot == <<".">>
DotDot == <<".", ".">>
DotSlash == <<".", "/">>
SlashDotSlash == <<"/", ".", "/">>
ExtJs == <<".", "j", "s">>
ExtJson == <<".", "j", "s", "o", "n">>
PackageJson == <<"/", "p", "a", "c", "k", "a", "g", "e", ".", "j", "s", "o", "n">>
IndexJs == <<"/", "i", "n", "d", "e", "x", ".", "j", "s">>

\* the loop of find_and_replace: i is the offset the search resumes at, p
\* the offset of the next occurrence
RECURSIVE find_and_replace_at(_, _, _, _)
find_and_replace_at(source, find, replace, p) ==
    IF p = NPOS THEN source
    ELSE find_and_replace_at(
             Prefix(source, p) \o replace \o Substr(source, p + Len(find)),
             find, replace,
             Find(Prefix(source, p) \o replace \o Substr(source, p + Len(find)),
                  find, p + Len(replace)))

find_and_replace(source, find, replace) ==
    find_and_replace_at(source, find, replace, Find(source, find, 0))

\* the std::getline(ss, item, '/') loop: no item after a trailing '/'; p is
\* the offset of the next '/'
RECURSIVE SplitPathAt(_, _)
SplitPathAt(s, p) ==
    IF s = <<>> THEN <<>>
    ELSE IF p = NPOS THEN <<s>>
    ELSE <<Prefix(s, p)>> \o SplitPathAt(Substr(s, p + 1), Find(Substr(s, p + 1), Slash, 0))

SplitPath(s) == SplitPathAt(s, Find(s, Slash, 0))

\* the result of a std::vector::at() that throws std::out_of_range
OutOfRange == <<"<out_of_range>">>

\* NormalizeLoop with a ".." that is skipped alone, its predecessor kept
RECURSIVE NormalizeLoopKeepingParent(_, _, _)
NormalizeLoopKeepingParent(pathParts, i, outPath) ==
    IF i < Len(pathParts) - 1
    THEN IF pathParts[i + 1] = Dot \/ pathParts[i + 1] = DotDot
         THEN NormalizeLoopKeepingParent(pathParts, i + 1, outPath)
         ELSE NormalizeLoopKeepingParent(pathParts, i + 1,
                  (IF Len(outPath) > 0 THEN outPath \o Slash ELSE outPath)
                      \o pathParts[i + 1])
    ELSE outPath

\* the for loop of normalize_path; i is the 0-based loop index
RECURSIVE NormalizeLoop(_, _, _)
NormalizeLoop(pathParts, i, outPath) ==
    IF i < Len(pathParts) - 1
    THEN IF pathParts[i + 2] # DotDot
         THEN IF pathParts[i + 1] = Dot
              THEN NormalizeLoop(pathParts, i + 1, outPath)
              ELSE NormalizeLoop(pathParts, i + 1,
                       (IF Len(outPath) > 0 THEN outPath \o Slash ELSE outPath)
                           \o pathParts[i + 1])
         ELSE NormalizeLoop(pathParts, i + 2, outPath)
    ELSE outPath

\* lines 56-79 of normalize_path, on the split path
NormalizeParts(pathParts) ==
    IF Len(pathParts) = 0 THEN OutOfRange
    ELSE NormalizeLoop(pathParts, IF pathParts[1] = DotDot THEN 1 ELSE 0, <<>>)
             \o Slash \o pathParts[Len(pathParts)]

normalize_path(path) == NormalizeParts(SplitPath(path))

\* lines 85-88 of getPathName, found being the offset of the last '/'
PathNameAt(path, found) == IF found = NPOS THEN path ELSE Prefix(path, found)

getPathName(path) == PathNameAt(path, FindLastOf(path, "/"))

\* the script closure built by makeRequireFunction(prefix)
BoundRequirePath(prefix, path) ==
    IF Find(path, DotSlash, 0) = 0
    THEN DotSlash \o prefix \o Slash \o Substr(path, 2)
    ELSE path

\* lines 601-605 of require: the rewriting of a "./" id
RewriteId(baseNameStr) ==
    IF Find(baseNameStr, DotSlash, 0) = 0
    THEN normalize_path(find_and_replace(Substr(baseNameStr, 2), SlashDotSlash, Slash))
    ELSE baseNameStr

(***************************************************************************)
(* File names, file contents and the file systems of the model.            *)
(***************************************************************************)
Foo == <<"f", "o", "o">>
Lib == <<"l", "i", "b">>
Data == <<"d", "a", "t", "a">>
FooJs == Foo \o ExtJs
FooJson == Foo \o ExtJson
FooIndexJs == Foo \o IndexJs
FooPackageJson == Foo \o PackageJson
LibJs == Lib \o ExtJs
FooLibJs == Foo \o Slash \o LibJs
DotSlashLib == DotSlash \o Lib
DotSlashIndex == DotSlash \o <<"i", "n", "d", "e", "x">>
DotSlashFooLib == DotSlash \o Foo \o Slash \o Lib
Missing == <<"n", "o">>

\* one require statement of a module body; catch: the call sits in try/catch
Req(path, catch) == [path |-> path, catch |-> catch]

\* a script source: the require calls of its body in order, whether the body
\* then throws, and whether it reassigns module.exports before returning
Script(reqs, throws, reassign) ==
    [kind |-> "script", compiles |-> TRUE, reqs |-> reqs, throws |-> throws,
     reassign |-> reassign, valid |-> FALSE, hasMain |-> FALSE, main |-> <<>>]

\* a script source with a syntax error
BadScript ==
    [kind |-> "script", compiles |-> FALSE, reqs |-> <<>>, throws |-> FALSE,
     reassign |-> FALSE, valid |-> FALSE, hasMain |-> FALSE, main |-> <<>>]

\* a JSON text that parses to an object, with or without a "main" field
Json(hasMain, main) ==
    [kind |-> "json", compiles |-> FALSE, reqs |-> <<>>, throws |-> FALSE,
     reassign |-> FALSE, valid |-> TRUE, hasMain |-> hasMain, main |-> main]

\* a text JSON.parse rejects
BadJson ==
    [kind |-> "json", compiles |-> FALSE, reqs |-> <<>>, throws |-> FALSE,
     reassign |-> FALSE, valid |-> FALSE, hasMain |-> FALSE, main |-> <<>>]

Plain == Script(<<>>, FALSE, FALSE)
Reassigning == Script(<<>>, FALSE, TRUE)
Throwing == Script(<<>>, TRUE, FALSE)

NoFiles == <<>>

\* foo.js and foo.json side by side
FsJsAndJson == (FooJs :> Plain) @@ (FooJson :> Json(FALSE, <<>>))

\* only foo/index.js, which requires its sibling ./lib and reassigns exports
FsIndexOnly ==
    (FooIndexJs :> Script(<<Req(DotSlashLib, FALSE)>>, FALSE, TRUE))
        @@ (FooLibJs :> Plain)

\* foo/package.json redirecting to lib.js, next to an index.js
FsPackageMain ==
    (FooPackageJson :> Json(TRUE, LibJs)) @@ (FooLibJs :> Reassigning)
        @@ (FooIndexJs :> Plain)

\* foo/package.json without a main field, next to index.js and foo.js
FsPackageNoMain ==
    (FooPackageJson :> Json(FALSE, <<>>)) @@ (FooIndexJs :> Plain)
        @@ (FooJs :> Plain)

\* foo/package.json that does not parse, next to foo.json
FsPackageBad == (FooPackageJson :> BadJson) @@ (FooJson :> Json(FALSE, <<>>))

\* foo.js throws, foo/lib.js does not compile
FsFaulty == (FooJs :> Throwing) @@ (FooLibJs :> BadScript)

\* foo/index.js and foo/lib.js require each other; lib catches the failure
FsCycle ==
    (FooIndexJs :> Script(<<Req(DotSlashLib, FALSE)>>, FALSE, FALSE))
        @@ (FooLibJs :> Script(<<Req(DotSlashIndex, TRUE)>>, FALSE, FALSE))

\* foo.js requires a module that is absent and lets the failure escape
FsDependsOnMissing ==
    (FooJs :> Script(<<Req(Missing, FALSE)>>, FALSE, FALSE))

\* only foo.json
FsJsonOnly == (FooJson :> Json(FALSE, <<>>))

\* a script file whose exact name has four characters, and one named foo
FsExact == (Data :> Plain) @@ (Foo :> Plain)

\* foo.js, outside any directory, requires its sibling ./lib
FsTopLevel ==
    (FooJs :> Script(<<Req(DotSlashLib, FALSE)>>, FALSE, FALSE)) @@ (LibJs :> Plain)

\* foo.js requires itself
FsSelf == (FooJs :> Script(<<Req(Foo, FALSE)>>, FALSE, FALSE))

\* "./../foo/./lib"
DotSlashUpFooDotLib ==
    DotSlash \o DotDot \o Slash \o Foo \o Slash \o DotSlash \o Lib

\* "./lib/."
DotSlashLibDot == DotSlashLib \o Slash \o Dot

\* foo/package.json names its main file, foo/lib.js, without the extension;
\* foo/index.js requires that file by a path with "." and ".." segments and
\* then, in a try/catch, by a path that ends in "."
FsPackageBareMain ==
    (FooPackageJson :> Json(TRUE, Lib)) @@ (FooLibJs :> Plain)
        @@ (FooIndexJs :> Script(<<Req(DotSlashUpFooDotLib, FALSE),
                                   Req(DotSlashLibDot, TRUE)>>, FALSE, FALSE))

FileSystems ==
    {NoFiles, FsJsAndJson, FsIndexOnly, FsPackageMain, FsPackageNoMain,
     FsPackageBad, FsFaulty, FsCycle, FsDependsOnMissing, FsJsonOnly, FsExact,
     FsTopLevel, FsSelf, FsPackageBareMain}

\* the ids the host passes to require
HostIds == {Foo, FooJs, FooIndexJs, DotSlashFooLib, Data, DotSlash}

\* the names the host registers native modules under
NativeNames == {Foo, FooJs}

\* what a registration callback does with the module object it is handed
Hooks == {"keep", "assign", "throw"}

(***************************************************************************)
(* Script values and script exceptions.                                    *)
(***************************************************************************)
\* a script value: id is its identity, by/of say what created it
Value(id, by, of) == [id |-> id, by |-> by, of |-> of]

\* the empty MaybeLocal
NoValue == Value(-1, "empty", <<>>)

\* what the wrapper function returns
Undefined == Value(0, "undefined", <<>>)

Exception(name, msg, at) == [name |-> name, msg |-> msg, at |-> at]

\* no exception is pending in the isolate
None == Exception("none", "", <<>>)

CannotFindModule(baseNameStr) == Exception("Error", "Cannot find module", baseNameStr)

\* Script::Compile rejected the wrapped source; the origin is baseNameStr
CompileError(baseNameStr) == Exception("SyntaxError", "Unexpected token", baseNameStr)

\* JSON.parse rejected the text
JsonError(fileName) == Exception("SyntaxError", "Unexpected token in JSON", fileName)

\* the module body threw
BodyError(fileName) == Exception("Error", "thrown by module body", fileName)

\* the script stack is exhausted
StackOverflow == Exception("RangeError", "Maximum call stack size exceeded", <<>>)

\* a registration callback raised
HookError(name) == Exception("Error", "thrown by registration callback", name)

(***************************************************************************)
(* The collaborators of require.                                           *)
(***************************************************************************)
\* loadFile(path) found an asset
loadFile(path) == path \in DOMAIN files

\* parseJSON(source) returned a value
parseJSON(path) == files[path].kind = "json" /\ files[path].valid

\* Script::Compile of the wrapped source succeeded
Compiles(path) == files[path].kind = "script" /\ files[path].compiles

\* _CHECK_AND_RETURN_REQUIRE_CACHE finds an entry
Cached(fileName) == fileName \in DOMAIN cache

\* requireHook module = _modules[baseNameStr]; if (module)
Registered(name) == name \in DOMAIN modules /\ modules[name] # "null"

\* baseNameStr.find(".json") == baseNameStr.length() - 5, in size_t
EndsWithJson(baseNameStr) == Find(baseNameStr, ExtJson, 0) = Len(baseNameStr) - 5

(***************************************************************************)
(* Lines 608-703 of require: which cache entry, native module or file the  *)
(* call settles on, and the files it reads on the way.                     *)
(***************************************************************************)
Found(kind, fileName, isJson, reads) ==
    [kind |-> kind, fileName |-> fileName, isJson |-> isJson, reads |-> reads]

\* MainOf without the directory of the package in front of the main field
MainOfIgnoringDirectory(baseNameStr) == files[baseNameStr \o PackageJson].main

\* fileName = baseNameStr + "/" + *jsFileNameC
MainOf(baseNameStr) == baseNameStr \o Slash \o files[baseNameStr \o PackageJson].main

\* ResolveProbes with the ".json" probe moved ahead of the ".js" probe
ResolveProbesJsonFirst(reads, idx, js, json) ==
    IF Cached(idx) THEN Found("cache", idx, FALSE, reads)
    ELSE IF loadFile(idx) THEN Found("file", idx, FALSE, reads \o <<idx>>)
    ELSE IF loadFile(json) THEN Found("file", json, TRUE, reads \o <<idx, json>>)
    ELSE IF Cached(js) THEN Found("cache", js, FALSE, reads \o <<idx, json>>)
    ELSE IF loadFile(js) THEN Found("file", js, FALSE, reads \o <<idx, json, js>>)
    ELSE Found("notfound", js, FALSE, reads \o <<idx, json, js>>)

\* lines 643-664 of require: the probes for idx = id/index.js, js = id.js and
\* json = id.json, after the files of reads were looked for
ResolveProbes(reads, idx, js, json) ==
    IF Cached(idx) THEN Found("cache", idx, FALSE, reads)
    ELSE IF loadFile(idx) THEN Found("file", idx, FALSE, reads \o <<idx>>)
    ELSE IF Cached(js) THEN Found("cache", js, FALSE, reads \o <<idx>>)
    ELSE IF loadFile(js) THEN Found("file", js, FALSE, reads \o <<idx, js>>)
    ELSE IF loadFile(json) THEN Found("file", json, TRUE, reads \o <<idx, js, json>>)
    ELSE Found("notfound", json, FALSE, reads \o <<idx, js, json>>)

\* lines 676-684 of require: the main target of a package.json
ResolveMain(reads, main) ==
    IF Cached(main) THEN Found("cache", main, FALSE, reads)
    ELSE IF loadFile(main) THEN Found("file", main, FALSE, reads \o <<main>>)
    ELSE Found("notfound", main, FALSE, reads \o <<main>>)

\* lines 665-692 of require: pkg = id/package.json was found
ResolvePackage(baseNameStr, pkg) ==
    IF parseJSON(pkg) /\ files[pkg].hasMain
    THEN ResolveMain(<<baseNameStr, pkg>>, MainOf(baseNameStr))
    ELSE Found("notfound", pkg, FALSE, <<baseNameStr, pkg>>)

\* lines 638-692 of require: the exact file was not found
ResolveDirectory(baseNameStr) ==
    IF loadFile(baseNameStr \o PackageJson)
    THEN ResolvePackage(baseNameStr, baseNameStr \o PackageJson)
    ELSE ResolveProbes(<<baseNameStr, baseNameStr \o PackageJson>>,
                       baseNameStr \o IndexJs, baseNameStr \o ExtJs,
                       baseNameStr \o ExtJson)

\* Resolve with the file probe of the exact id ahead of the registry lookup
ResolveFilesFirst(baseNameStr) ==
    IF Cached(baseNameStr) THEN Found("cache", baseNameStr, FALSE, <<>>)
    ELSE IF loadFile(baseNameStr)
         THEN Found("file", baseNameStr, EndsWithJson(baseNameStr), <<baseNameStr>>)
         ELSE IF Registered(baseNameStr) THEN Found("native", baseNameStr, FALSE, <<>>)
         ELSE ResolveDirectory(baseNameStr)

Resolve(baseNameStr) ==
    IF Cached(baseNameStr) THEN Found("cache", baseNameStr, FALSE, <<>>)
    ELSE IF Registered(baseNameStr) THEN Found("native", baseNameStr, FALSE, <<>>)
    ELSE IF loadFile(baseNameStr)
         THEN Found("file", baseNameStr, EndsWithJson(baseNameStr), <<baseNameStr>>)
         ELSE ResolveDirectory(baseNameStr)

(***************************************************************************)
(* What one call of BGJSV8Engine::require does up to the point where it    *)
(* either returns or invokes the wrapper function of a script module.      *)
(***************************************************************************)
\* kind: how the call ended; pre: what held when the call began
Outcome(kind, arg, baseNameStr, fileName, value, exc, reads, pre) ==
    [kind |-> kind, arg |-> arg, base |-> baseNameStr, file |-> fileName,
     value |-> value, exc |-> exc, reads |-> reads, pre |-> pre]

\* the state a call begins in: the number of returns so far, and whether
\* its id is registered and cached
Pre(baseNameStr) ==
    [seq |-> lastRet.seq, registered |-> Registered(baseNameStr),
     cached |-> Cached(baseNameStr)]

\* module(this, moduleObj); result = moduleObj->Get("exports")
NativeExports(name) ==
    IF modules[name] = "assign"
    THEN Value(nextObj + 1, "native-assigned", name)
    ELSE Value(nextObj, "native-exports", name)

\* lines 697-743 of require for a call that settled on r
LoadOutcome(arg, depth, baseNameStr, r, pre) ==
    IF r.kind = "cache"
    THEN Outcome("cache", arg, baseNameStr, r.fileName, cache[r.fileName], None,
                 r.reads, pre)
    ELSE IF r.kind = "native"
    THEN Outcome("native", arg, baseNameStr, baseNameStr, NativeExports(baseNameStr),
                 IF modules[baseNameStr] = "throw" THEN HookError(baseNameStr) ELSE None,
                 r.reads, pre)
    ELSE IF r.kind = "notfound"
    THEN Outcome("notfound", arg, baseNameStr, r.fileName, NoValue,
                 CannotFindModule(baseNameStr), r.reads, pre)
    ELSE IF r.isJson
    THEN IF parseJSON(r.fileName)
         THEN Outcome("json", arg, baseNameStr, r.fileName,
                      Value(nextObj, "json", r.fileName), None, r.reads, pre)
         ELSE Outcome("jsonfail", arg, baseNameStr, r.fileName, NoValue,
                      JsonError(r.fileName), r.reads, pre)
    ELSE IF ~Compiles(r.fileName)
    THEN Outcome("compilefail", arg, baseNameStr, r.fileName, NoValue,
                 CompileError(baseNameStr), r.reads, pre)
    ELSE IF depth >= StackLimit
    THEN Outcome("overflow", arg, baseNameStr, r.fileName, NoValue,
                 StackOverflow, r.reads, pre)
    ELSE Outcome("eval", arg, baseNameStr, r.fileName, NoValue, None, r.reads, pre)

\* lines 606-743 of require, baseNameStr being the rewritten id
OutcomeFor(arg, depth, baseNameStr) ==
    IF baseNameStr = OutOfRange
    THEN Outcome("abort", arg, baseNameStr, <<>>, NoValue, None, <<>>, Pre(baseNameStr))
    ELSE LoadOutcome(arg, depth, baseNameStr, Resolve(baseNameStr), Pre(baseNameStr))

RequireOutcome(arg, depth) == OutcomeFor(arg, depth, RewriteId(arg))

\* Frame for a wrapper function that suspends and is never resumed
FrameSuspended(o) ==
    [arg |-> o.arg, base |-> o.base, fileName |-> o.file,
     pathName |-> getPathName(o.file), pc |-> 1, st |-> "suspended",
     exportsObj |-> Value(nextObj, "exports", o.file), reads |-> o.reads,
     pre |-> o.pre]

\* the activation of one wrapper function: the statement it is at (pc), and
\* st = "throw" once an exception escapes from one of its require calls
Frame(o) ==
    [arg |-> o.arg, base |-> o.base, fileName |-> o.file,
     pathName |-> getPathName(o.file), pc |-> 1, st |-> "run",
     exportsObj |-> Value(nextObj, "exports", o.file), reads |-> o.reads,
     pre |-> o.pre]

\* ModuleExports reading the exports object created before the call
ModuleExportsInitial(top) == top.exportsObj

\* result = moduleObj->Get("exports") once the wrapper function returned
ModuleExports(top) ==
    IF files[top.fileName].reassign
    THEN Value(nextObj, "assigned", top.fileName)
    ELSE top.exportsObj

\* FinishOutcome raising an error of its own in place of the pending one
FinishOutcomeReplacing(top) ==
    IF top.st = "throw" \/ files[top.fileName].throws
    THEN Outcome("evalfail", top.arg, top.base, top.fileName, NoValue,
                 CannotFindModule(top.base), top.reads, top.pre)
    ELSE Outcome("script", top.arg, top.base, top.fileName, ModuleExports(top), None,
                 top.reads, top.pre)

\* lines 762-774 of require: how the call ends once the wrapper function of
\* the activation top has finished
FinishOutcome(top) ==
    IF top.st = "throw"
    THEN Outcome("evalfail", top.arg, top.base, top.fileName, NoValue, pending,
                 top.reads, top.pre)
    ELSE IF files[top.fileName].throws
    THEN Outcome("evalfail", top.arg, top.base, top.fileName, NoValue,
                 BodyError(top.fileName), top.reads, top.pre)
    ELSE Outcome("script", top.arg, top.base, top.fileName, ModuleExports(top), None,
                 top.reads, top.pre)

\* _moduleCache[key].Reset(_isolate, value)
CachePut(key, value) == (key :> value) @@ cache

\* CacheAfter writing an entry for failed calls as well
CacheAfterAnyOutcome(o) ==
    IF o.kind \notin {"abort", "cache", "eval", "json"}
    THEN CachePut(o.file, o.value)
    ELSE cache

\* CacheAfter without the write for native modules
CacheAfterScriptsOnly(o) ==
    IF o.kind = "script" THEN CachePut(o.file, o.value) ELSE cache

\* CacheAfter with the entry made under the id the caller passed
CacheAfterUnderRequestedId(o) ==
    IF o.kind \in {"native", "script"} THEN CachePut(o.arg, o.value) ELSE cache

\* the module cache after a call that ended as o: written on lines 631 and
\* 766 only
CacheAfter(o) ==
    IF o.kind \in {"native", "script"} THEN CachePut(o.file, o.value) ELSE cache

\* the registry after the lookup _modules[baseNameStr] on line 617, which
\* default-inserts an empty hook for a name it does not hold
ModulesAfter(o) ==
    IF o.kind # "abort" /\ ~o.pre.cached /\ o.base \notin DOMAIN modules
    THEN (o.base :> "null") @@ modules
    ELSE modules

\* the script values a call that ended as o has allocated
Allocated(o) ==
    IF o.kind = "native" THEN 2
    ELSE IF o.kind \in {"json", "eval"} THEN 1
    ELSE IF o.kind = "script" /\ o.value.by = "assigned" THEN 1
    ELSE 0

\* the require call the activation top is waiting for sits in a try/catch
CallerCatches(top) == files[top.fileName].reqs[top.pc - 1].catch

\* require returns to its caller: RequireCallback in a module body (stk is
\* the caller's stack), or the host entry point (stk is empty)
Return(stk, o) ==
    /\ lastRet' = [seq |-> lastRet.seq + 1, host |-> stk = <<>>, ret |-> o]
    /\ firstOk' = IF o.kind = "script" /\ o.arg \notin DOMAIN firstOk
                  THEN (o.arg :> [seq |-> lastRet.seq + 1, ret |-> o]) @@ firstOk
                  ELSE firstOk
    /\ IF stk = <<>>
       THEN /\ stack' = <<>>
            /\ pending' = o.exc
            /\ hostPc' = "returned"
       ELSE /\ hostPc' = hostPc
            /\ IF o.exc = None \/ CallerCatches(stk[Len(stk)])
               THEN stack' = stk /\ pending' = None
               ELSE /\ stack' = [stk EXCEPT ![Len(stk)].st = "throw"]
                    /\ pending' = o.exc

\* the effect of a require call that ends as o, or starts a module body,
\* for the caller's stack stk
RequireEffect(o, stk) ==
    /\ modules' = ModulesAfter(o)
    /\ cache' = CacheAfter(o)
    /\ cbCalls' = IF o.kind = "native" THEN [cbCalls EXCEPT ![o.base] = @ + 1] ELSE cbCalls
    /\ nextObj' = nextObj + Allocated(o)
    /\ IF o.kind = "abort"
       THEN /\ crashed' = TRUE
            /\ lastRet' = [seq |-> lastRet.seq + 1, host |-> stk = <<>>, ret |-> o]
            /\ UNCHANGED <<stack, pending, hostPc, evalCount, firstOk>>
       ELSE IF o.kind = "eval"
       THEN /\ stack' = Append(stk, Frame(o))
            /\ evalCount' = [evalCount EXCEPT ![o.file] = @ + 1]
            /\ hostPc' = "running"
            /\ UNCHANGED <<pending, lastRet, firstOk, crashed>>
       ELSE /\ Return(stk, o)
            /\ UNCHANGED <<evalCount, crashed>>

\* the process ends in place of the outcome o
AbortOf(o) == [o EXCEPT !.kind = "abort", !.exc = None]

\* how a call that would end as o can end: where the exhausted script stack
\* is noticed depends on the stack depth of the build.  Noticed on entry to a
\* script function it is a RangeError; noticed by Script::Run on line 738 it
\* leaves an empty result and ToLocalChecked() ends the process
EndingsOf(o) == IF o.kind = "overflow" THEN {o, AbortOf(o)} ELSE {o}

\* BGJSV8Engine::require(arg), called with the caller's stack stk
Require(arg, stk) ==
    \E o \in EndingsOf(RequireOutcome(arg, Len(stk))) : RequireEffect(o, stk)

(***************************************************************************)
(* The operations.                                                         *)
(***************************************************************************)
\* registerModule(name, requireFn) / registerJavaModule(module)
registerModule(name, hook) ==
    /\ ~crashed
    /\ hostPc = "idle"
    /\ regs < MaxRegs
    /\ regs' = regs + 1
    /\ modules' = (name :> hook) @@ modules
    /\ UNCHANGED <<files, cache, stack, pending, hostPc, lastRet, hostResult,
                   evalCount, cbCalls, nextObj, calls, crashed, firstOk>>
    /\ UNCHANGED <<pathVars, bridgeVars, inboundVars, lockVars, platformVars, frameVars>>

\* Java_ag_boersego_bgjs_V8Engine_require up to the return of engine->require
\* or the start of a module body
HostRequire(id) ==
    /\ ~crashed
    /\ hostPc = "idle"
    /\ calls < MaxCalls
    /\ calls' = calls + 1
    /\ Require(id, <<>>)
    /\ UNCHANGED <<files, hostResult, regs>>
    /\ UNCHANGED <<pathVars, bridgeVars, inboundVars, lockVars, platformVars, frameVars>>

\* the id the bound require function of the activation top passes on for the
\* require statement the body is at
NextRequire(top) ==
    BoundRequirePath(top.pathName, files[top.fileName].reqs[top.pc].path)

\* the module body on top of the stack calls its bound require function
BodyRequire ==
    /\ ~crashed
    /\ stack # <<>>
    /\ stack[Len(stack)].st = "run"
    /\ stack[Len(stack)].pc <= Len(files[stack[Len(stack)].fileName].reqs)
    /\ Require(NextRequire(stack[Len(stack)]), [stack EXCEPT ![Len(stack)].pc = @ + 1])
    /\ UNCHANGED <<files, hostResult, calls, regs>>
    /\ UNCHANGED <<pathVars, bridgeVars, inboundVars, lockVars, platformVars, frameVars>>

\* the effect of a require call whose module body ended as o
FinishEffect(o, stk) ==
    /\ cache' = CacheAfter(o)
    /\ nextObj' = nextObj + Allocated(o)
    /\ Return(stk, o)

\* the module body on top of the stack ends: lines 762-774 of require
BodyFinish ==
    /\ ~crashed
    /\ stack # <<>>
    /\ \/ stack[Len(stack)].st = "throw"
       \/ /\ stack[Len(stack)].st = "run"
          /\ stack[Len(stack)].pc > Len(files[stack[Len(stack)].fileName].reqs)
    /\ FinishEffect(FinishOutcome(stack[Len(stack)]), SubSeq(stack, 1, Len(stack) - 1))
    /\ UNCHANGED <<files, modules, hostResult, evalCount, cbCalls, calls, regs, crashed>>
    /\ UNCHANGED <<pathVars, bridgeVars, inboundVars, lockVars, platformVars, frameVars>>

\* Java_ag_boersego_bgjs_V8Engine_require after engine->require returned: an
\* empty value is bridged to a host exception, the TryCatch goes out of scope
HostFinish ==
    /\ ~crashed
    /\ hostPc = "returned"
    /\ hostPc' = "idle"
    /\ hostResult' = [thrown |-> lastRet.ret.value = NoValue /\ pending # None,
                      exc |-> IF lastRet.ret.value = NoValue THEN pending ELSE None,
                      value |-> lastRet.ret.value]
    /\ pending' = None
    /\ UNCHANGED <<files, modules, cache, stack, lastRet, evalCount, cbCalls,
                   nextObj, calls, regs, crashed, firstOk>>
    /\ UNCHANGED <<pathVars, bridgeVars, inboundVars, lockVars, platformVars, frameVars>>

NoPre == [seq |-> 0, registered |-> FALSE, cached |-> FALSE]

\* the engine after createContext, over the file system fs
LoaderInit(fs) ==
    /\ files = fs
    /\ modules = <<>>
    /\ cache = <<>>
    /\ stack = <<>>
    /\ pending = None
    /\ hostPc = "idle"
    /\ lastRet = [seq |-> 0, host |-> TRUE,
                  ret |-> Outcome("init", <<>>, <<>>, <<>>, NoValue, None, <<>>, NoPre)]
    /\ hostResult = [thrown |-> FALSE, exc |-> None, value |-> NoValue]
    /\ evalCount = [f \in DOMAIN files |-> 0]
    /\ cbCalls = [n \in NativeNames |-> 0]
    /\ nextObj = 1
    /\ calls = 0
    /\ regs = 0
    /\ crashed = FALSE
    /\ firstOk = <<>>

\* normalize_path has not been handed a path
PathIdle ==
    /\ pathArg = <<>>
    /\ normalized = <<>>

NoException == [tag |-> "none", obj |-> 0]

BridgeIdle ==
    /\ throwables = <<>>
    /\ jniPending = 0
    /\ caught = NoException
    /\ holders = <<>>
    /\ known = {}
    /\ engine = "alive"
    /\ bpc = "host"
    /\ bridges = <<>>
    /\ nFaults = 0
    /\ nEntries = 0
    /\ wrapRet = "none"

Threads == 1..MaxThreads

\* a thread that is in none of the host-facing operations
Outside == [op |-> "none", pc |-> "idle"]

\* no thread is in the engine
LockIdle ==
    /\ lockOwner = 0
    /\ threads = [t \in Threads |-> Outside]

\* createContext has not been called
PlatformIdle ==
    /\ isPlatformInitialized = FALSE
    /\ bringUps = 0
    /\ platformReady = FALSE
    /\ isolates = <<>>
    /\ creating = [t \in Threads |-> "outside"]
    /\ contexts = 0

\* what a script global leaves in the return value slot of its call, and
\* whether it raised
Returned(value, threw) == [value |-> value, threw |-> threw]

\* the return value slot of a call before the callback writes to it
UndefinedSlot == [set |-> FALSE, v |-> 0]

\* the return value slot after args.GetReturnValue().Set(v)
Int32Slot(v) == [set |-> TRUE, v |-> v]

\* no script has called requestAnimationFrame or cancelAnimationFrame
FrameIdle ==
    /\ scheduled = {}
    /\ frameRet = Returned(UndefinedSlot, FALSE)
    /\ frameCalls = <<>>

\* a value that may be missing
Just(v) == [some |-> TRUE, v |-> v]

NoString == [some |-> FALSE, v |-> <<>>]

NoInt == [some |-> FALSE, v |-> 0]

\* no script exception has been converted
InboundIdle ==
    /\ excArg = [isObject |-> FALSE, str |-> <<>>, message |-> NoString,
                 name |-> NoString, resource |-> NoString, line |-> NoInt,
                 stack |-> [kind |-> "fails", sites |-> <<>>]]
    /\ raised = [made |-> FALSE, message |-> <<>>, frames |-> <<>>, cause |-> 0]

Init ==
    /\ \E fs \in FileSystems : LoaderInit(fs)
    /\ PathIdle
    /\ BridgeIdle
    /\ InboundIdle
    /\ LockIdle
    /\ PlatformIdle
    /\ FrameIdle

Next ==
    \/ \E name \in NativeNames, hook \in Hooks : registerModule(name, hook)
    \/ \E id \in HostIds : HostRequire(id)
    \/ BodyRequire
    \/ BodyFinish
    \/ HostFinish

Spec == Init /\ [][Next]_vars

\* the file systems in which a module body holds a require statement
NestedFileSystems ==
    {fs \in FileSystems : \E f \in DOMAIN fs : fs[f].reqs # <<>>}

LiveInit ==
    /\ \E fs \in NestedFileSystems : LoaderInit(fs)
    /\ PathIdle
    /\ BridgeIdle
    /\ InboundIdle
    /\ LockIdle
    /\ PlatformIdle
    /\ FrameIdle

\* the module body on top of the stack can take a step: the condition under
\* which BodyRequire or BodyFinish is enabled
BodyEnabled ==
    /\ ~crashed
    /\ stack # <<>>
    /\ stack[Len(stack)].st \in {"run", "throw"}

\* require runs synchronously on the calling thread (RequireCallback, lines
\* 164-182; the JNI entry point, lines 1509-1529): a module body that can
\* take its next step takes it, and the entry point returns to the host.
\* The first condition is WF_vars(BodyRequire \/ BodyFinish) with the
\* enabling condition of the two actions written out as BodyEnabled.
LiveSpec ==
    /\ LiveInit
    /\ [][Next]_vars
    /\ []<>(~BodyEnabled) \/ []<><<BodyRequire \/ BodyFinish>>_vars
    /\ WF_vars(HostFinish)

(***************************************************************************)
(* normalize_path applied to a path, and again to its own result.          *)
(***************************************************************************)
\* the segments paths are built from
Segments == {Dot, DotDot, <<"a">>, <<"b">>, <<"c">>}

\* the paths of n segments
RECURSIVE PathsOf(_)
PathsOf(n) ==
    IF n = 1 THEN Segments
    ELSE {p \o Slash \o seg : p \in PathsOf(n - 1), seg \in Segments}

Paths == UNION {PathsOf(n) : n \in 1..MaxSegments}

PathInit ==
    /\ LoaderInit(NoFiles)
    /\ pathArg \in Paths
    /\ normalized = <<>>
    /\ BridgeIdle
    /\ InboundIdle
    /\ LockIdle
    /\ PlatformIdle
    /\ FrameIdle

\* the path the next call of normalize_path is handed
NextPath == IF normalized = <<>> THEN pathArg ELSE normalized[Len(normalized)]

\* baseNameStr = normalize_path(baseNameStr), line 603 of require
NormalizePath ==
    /\ Len(normalized) < 2
    /\ normalized' = Append(normalized, normalize_path(NextPath))
    /\ UNCHANGED <<pathArg, loaderVars, bridgeVars, inboundVars, lockVars, platformVars, frameVars>>

PathNext == NormalizePath

PathSpec == PathInit /\ [][PathNext]_vars

(***************************************************************************)
(* The exception bridge: forwardJNIExceptionToV8 wraps the exception       *)
(* pending in the host runtime into a JavaError object and throws it into  *)
(* script code, forwardV8ExceptionToJNI turns the exception script code    *)
(* ended with into a host exception, and                                   *)
(* BGJSV8EngineJavaErrorHolderWeakPersistentCallback runs when the garbage *)
(* collector has found a JavaError object unreachable.                     *)
(*                                                                         *)
(* throwables[t] is a host exception object: its class and its cause.      *)
(* holders[w] is the BGJSV8EngineJavaErrorHolder of JavaError object w:    *)
(* the throwable it holds a global reference to, whether script or host    *)
(* code can still reach the JavaError object, whether its weak handle is   *)
(* set, how often the global reference was deleted, and whether the holder *)
(* itself was deleted.                                                     *)
(***************************************************************************)
\* a host exception object
Throwable(kind, cause) == [kind |-> kind, cause |-> cause]

\* env->IsInstanceOf(t, _jniV8Exception.clazz), line 292: never true
IsInstanceOfNothing(t) == FALSE

\* env->IsInstanceOf(t, _jniV8Exception.clazz), line 292
IsInstanceOf(t) == throwables[t].kind = "V8Exception"

\* the script exception that is JavaError object w
JavaError(w) == [tag |-> "JavaError", obj |-> w]

\* a script exception that is not a JavaError object
ScriptError == [tag |-> "Error", obj |-> 0]

\* the holder behind the private field "JavaErrorExternal" of the exception,
\* 0 if the exception has none (lines 283-289)
HolderOf(exc) == IF exc.tag = "JavaError" THEN exc.obj ELSE 0

\* lines 222-223 with the test for a pending exception left out
ExceptionOccurredAlways(e) == TRUE

\* lines 222-223: env->ExceptionOccurred() returned an exception
ExceptionOccurred(e) == e # 0

\* lines 231-246 without SetWeak
NewHolderStrong(e) ==
    [throwable |-> e, reachable |-> TRUE, armed |-> FALSE, released |-> 0,
     deleted |-> FALSE]

\* lines 227-247: the holder of a new JavaError object for throwable e
NewHolder(e) ==
    [throwable |-> e, reachable |-> TRUE, armed |-> TRUE, released |-> 0,
     deleted |-> FALSE]

\* lines 202-210 with the weak handle left set
AfterFinalizerStillArmed(h) ==
    [h EXCEPT !.released = h.released + 1, !.deleted = TRUE]

\* lines 202-210: DeleteGlobalRef, persistent.Reset, delete holder
AfterFinalizer(h) ==
    [h EXCEPT !.released = h.released + 1, !.armed = FALSE, !.deleted = TRUE]

\* lines 292-295 with the wrapped exception forgotten
CauseExceptionDropped(w) == 0

\* lines 292-295: the cause handed to the new V8JSException, 0 for nullptr
CauseException(w) ==
    IF w # 0 /\ ~IsInstanceOf(holders[w].throwable)
    THEN holders[w].throwable ELSE 0

\* line 292 taken to its else branch: the wrapped V8Exception is thrown again
Reuses(w) == w # 0 /\ IsInstanceOf(holders[w].throwable)

\* lines 434-442: the new V8JSException and the new V8Exception around it
NewExceptions(w) ==
    <<Throwable("V8JSException", CauseException(w)),
      Throwable("V8Exception", Len(throwables) + 1)>>

\* the host exception objects after forwardV8ExceptionToJNI
ThrowablesAfter(w) ==
    IF Reuses(w) THEN throwables ELSE throwables \o NewExceptions(w)

\* the exception forwardV8ExceptionToJNI throws to the host (lines 298, 440)
Thrown(w) ==
    IF Reuses(w) THEN holders[w].throwable ELSE Len(throwables) + 2

\* what a call of forwardV8ExceptionToJNI found and threw: the holder of the
\* exception (0 for none), the throwable the holder keeps, and the exception
\* thrown to the host
Bridge(w) ==
    [holder |-> w,
     held |-> IF w = 0 THEN 0 ELSE holders[w].throwable,
     result |-> Thrown(w)]

BridgeInit ==
    /\ LoaderInit(NoFiles)
    /\ PathIdle
    /\ BridgeIdle
    /\ InboundIdle
    /\ LockIdle
    /\ PlatformIdle
    /\ FrameIdle

Alive == engine = "alive"

\* the host calls into script code (the JNI entry points parseJSON, require
\* and runScript, lines 1489-1590)
EnterScript ==
    /\ Alive /\ bpc = "host" /\ nEntries < MaxEntries
    /\ bpc' = "script"
    /\ nEntries' = nEntries + 1
    /\ UNCHANGED <<throwables, jniPending, caught, holders, known, engine,
                   bridges, nFaults>>
    /\ UNCHANGED <<wrapRet, loaderVars, pathVars, inboundVars, lockVars, platformVars, frameVars>>

\* script code calls a host function
CallHost ==
    /\ Alive /\ bpc = "script" /\ caught = NoException
    /\ bpc' = "callback"
    /\ UNCHANGED <<throwables, jniPending, caught, holders, known, engine,
                   bridges, nFaults, nEntries>>
    /\ UNCHANGED <<wrapRet, loaderVars, pathVars, inboundVars, lockVars, platformVars, frameVars>>

\* the host function raises a fault of its own
HostThrow ==
    /\ Alive /\ bpc = "callback" /\ jniPending = 0
    /\ nFaults < MaxFaults /\ Len(holders) < MaxEnvelopes
    /\ throwables' = Append(throwables, Throwable("Other", 0))
    /\ jniPending' = Len(throwables) + 1
    /\ nFaults' = nFaults + 1
    /\ UNCHANGED <<caught, holders, known, engine, bpc, bridges,
                   nEntries>>
    /\ UNCHANGED <<wrapRet, loaderVars, pathVars, inboundVars, lockVars, platformVars, frameVars>>

\* the host function throws an exception it received earlier
HostRethrow ==
    /\ Alive /\ bpc = "callback" /\ jniPending = 0
    /\ Len(holders) < MaxEnvelopes
    /\ \E t \in known : jniPending' = t
    /\ UNCHANGED <<throwables, caught, holders, known, engine, bpc,
                   bridges, nFaults, nEntries>>
    /\ UNCHANGED <<wrapRet, loaderVars, pathVars, inboundVars, lockVars, platformVars, frameVars>>

\* BGJSV8Engine::forwardJNIExceptionToV8 on return from the host function
forwardJNIExceptionToV8 ==
    /\ Alive /\ bpc = "callback"
    /\ IF ExceptionOccurred(jniPending)
       THEN /\ holders' = Append(holders, NewHolder(jniPending))
            /\ caught' = JavaError(Len(holders) + 1)
            /\ wrapRet' = "true"
       ELSE /\ UNCHANGED <<holders, caught>>
            /\ wrapRet' = "false"
    /\ jniPending' = 0
    /\ bpc' = "script"
    /\ UNCHANGED <<throwables, known, engine, bridges, nFaults,
                   nEntries>>
    /\ UNCHANGED <<loaderVars, pathVars, inboundVars, lockVars, platformVars, frameVars>>

\* script code throws a value of its own
ScriptThrow ==
    /\ Alive /\ bpc = "script" /\ caught = NoException
    /\ caught' = ScriptError
    /\ UNCHANGED <<throwables, jniPending, holders, known, engine, bpc,
                   bridges, nFaults, nEntries>>
    /\ UNCHANGED <<wrapRet, loaderVars, pathVars, inboundVars, lockVars, platformVars, frameVars>>

\* script code catches the exception; it may keep the caught object
ScriptCatch ==
    /\ Alive /\ bpc = "script" /\ caught # NoException
    /\ caught' = NoException
    /\ UNCHANGED <<throwables, jniPending, holders, known, engine, bpc,
                   bridges, nFaults, nEntries>>
    /\ UNCHANGED <<wrapRet, loaderVars, pathVars, inboundVars, lockVars, platformVars, frameVars>>

\* script code throws a JavaError object it kept
ScriptRethrow ==
    /\ Alive /\ bpc = "script" /\ caught = NoException
    /\ \E w \in DOMAIN holders :
        /\ holders[w].reachable
        /\ caught' = JavaError(w)
    /\ UNCHANGED <<throwables, jniPending, holders, known, engine, bpc,
                   bridges, nFaults, nEntries>>
    /\ UNCHANGED <<wrapRet, loaderVars, pathVars, inboundVars, lockVars, platformVars, frameVars>>

\* BGJSV8Engine::forwardV8ExceptionToJNI with exception exc caught
ForwardV8(exc) ==
    /\ throwables' = ThrowablesAfter(HolderOf(exc))
    /\ bridges' = Append(bridges, Bridge(HolderOf(exc)))
    /\ known' = known \union {Thrown(HolderOf(exc))}

\* script code returns to the host, which receives the exception
\* BGJSV8Engine::forwardV8ExceptionToJNI has thrown
forwardV8ExceptionToJNI ==
    /\ Alive /\ bpc = "script"
    /\ IF caught = NoException
       THEN UNCHANGED <<throwables, bridges, known>>
       ELSE ForwardV8(caught)
    /\ caught' = NoException
    /\ bpc' = "host"
    /\ UNCHANGED <<jniPending, holders, engine, nFaults, nEntries>>
    /\ UNCHANGED <<wrapRet, loaderVars, pathVars, inboundVars, lockVars, platformVars, frameVars>>

\* the last reference to a JavaError object goes away
Unreference ==
    /\ Alive
    /\ \E w \in DOMAIN holders :
        /\ holders[w].reachable /\ caught # JavaError(w)
        /\ holders' = [holders EXCEPT ![w].reachable = FALSE]
    /\ UNCHANGED <<throwables, jniPending, caught, known, engine, bpc,
                   bridges, nFaults, nEntries>>
    /\ UNCHANGED <<wrapRet, loaderVars, pathVars, inboundVars, lockVars, platformVars, frameVars>>

\* BGJSV8EngineJavaErrorHolderWeakPersistentCallback: the garbage collector
\* of the engine's isolate has found a JavaError object unreachable
WeakPersistentCallback ==
    /\ Alive
    /\ \E w \in DOMAIN holders :
        /\ ~holders[w].reachable /\ holders[w].armed
        /\ holders' = [holders EXCEPT ![w] = AfterFinalizer(holders[w])]
    /\ UNCHANGED <<throwables, jniPending, caught, known, engine, bpc,
                   bridges, nFaults, nEntries>>
    /\ UNCHANGED <<wrapRet, loaderVars, pathVars, inboundVars, lockVars, platformVars, frameVars>>

\* BGJSV8Engine::~BGJSV8Engine: the handles of the engine are reset and the
\* isolate is exited; no holder is visited, and nothing runs in the isolate
\* afterwards
Destroy ==
    /\ Alive /\ bpc = "host"
    /\ engine' = "destroyed"
    /\ UNCHANGED <<throwables, jniPending, caught, holders, known, bpc,
                   bridges, nFaults, nEntries>>
    /\ UNCHANGED <<wrapRet, loaderVars, pathVars, inboundVars, lockVars, platformVars, frameVars>>

BridgeNext ==
    \/ EnterScript
    \/ CallHost
    \/ HostThrow
    \/ HostRethrow
    \/ forwardJNIExceptionToV8
    \/ ScriptThrow
    \/ ScriptCatch
    \/ ScriptRethrow
    \/ forwardV8ExceptionToJNI
    \/ Unreference
    \/ WeakPersistentCallback
    \/ Destroy

BridgeSpec == BridgeInit /\ [][BridgeNext]_vars

(***************************************************************************)
(* The host exception forwardV8ExceptionToJNI builds (lines 304-442): its  *)
(* message, its stack trace and its cause.                                 *)
(*                                                                         *)
(* excArg describes the script exception and what the isolate knows about  *)
(* it: whether it is an object, its string conversion, its "message" and   *)
(* "name" properties when they are strings, the resource name and the line *)
(* number of try_catch->Message(), and what the stack helper returns for   *)
(* it: nothing (the call fails), a value that is no array, or an array of  *)
(* call sites.  A call site is an object with the results of its five      *)
(* accessors, or a value that is no object.                                *)
(***************************************************************************)
SyntaxErrorName == <<"S", "y", "n", "t", "a", "x", "E", "r", "r", "o", "r">>
TypeErrorName == <<"T", "y", "p", "e", "E", "r", "r", "o", "r">>
ErrorName == <<"E", "r", "r", "o", "r">>
UnknownName == <<"<", "u", "n", "k", "n", "o", "w", "n", ">">>
AnonymousName == <<"<", "a", "n", "o", "n", "y", "m", "o", "u", "s", ">">>
Boom == <<"b", "o", "o", "m">>
AppJs == <<"a", "p", "p", ".", "j", "s">>

Digits == <<"0", "1", "2", "3", "4", "5", "6", "7", "8", "9">>

\* std::to_string of an int that is not negative
RECURSIVE to_string(_)
to_string(n) ==
    IF n < 10 THEN <<Digits[n + 1]>>
    ELSE to_string(n \div 10) \o <<Digits[(n % 10) + 1]>>

\* a std::string or jstring left at its initial value when the property or
\* accessor gave no string
StringOr(m, default) == IF m.some THEN m.v ELSE default

\* lines 336-339 and 400-403: the line number of the message, -1 if unknown
MessageLine(x) == IF x.line.some THEN x.line.v ELSE -1

\* lines 340-346 with the line number never appended
LocationPrefixWithoutLine(x) ==
    IF x.resource.some THEN x.resource.v \o <<" ", "-", " ">> ELSE <<>>

\* lines 340-346: what is put in front of the message of a SyntaxError
LocationPrefix(x) ==
    IF x.resource.some
    THEN x.resource.v
             \o (IF MessageLine(x) > 0
                 THEN <<":">> \o to_string(MessageLine(x)) ELSE <<>>)
             \o <<" ", "-", " ">>
    ELSE <<>>

\* lines 313-346: strExceptionMessage
StrExceptionMessage(x) ==
    (IF StringOr(x.name, <<>>) = SyntaxErrorName THEN LocationPrefix(x) ELSE <<>>)
        \o StringOr(x.message, <<>>)

\* line 350: "[" + strErrorName + "] " + strExceptionMessage
Composed(x) ==
    <<"[">> \o StringOr(x.name, <<>>) \o <<"]", " ">> \o StrExceptionMessage(x)

\* exception->ToString(): the string conversion of a value that is no
\* object, and of an error object the conversion Error.prototype.toString
GenericString(x) ==
    IF ~x.isObject THEN x.str
    ELSE IF StringOr(x.message, <<>>) = <<>> THEN StringOr(x.name, ErrorName)
    ELSE IF StringOr(x.name, ErrorName) = <<>> THEN x.message.v
    ELSE StringOr(x.name, ErrorName) \o <<":", " ">> \o x.message.v

\* lines 312-350 and 430-432: exceptionMessage
ExceptionMessage(x) == IF x.isObject THEN Composed(x) ELSE GenericString(x)

\* lines 391-392 and 426 with the two sentinels exchanged
LineOrSentinelSwapped(fileName, lineNumber) ==
    IF fileName.some THEN (IF lineNumber >= 1 THEN lineNumber ELSE -2) ELSE -1

\* lines 391-392 and 426: fileName ? (lineNumber >= 1 ? lineNumber : -1) : -2
LineOrSentinel(fileName, lineNumber) ==
    IF fileName.some THEN (IF lineNumber >= 1 THEN lineNumber ELSE -1) ELSE -2

\* lines 389-390: the method name, else the function name, else "<anonymous>"
FrameName(cs) ==
    IF ~cs.methodName.some /\ ~cs.functionName.some THEN AnonymousName
    ELSE IF cs.methodName.some THEN cs.methodName.v ELSE cs.functionName.v

\* a java.lang.StackTraceElement
StackTraceElement(type, name, file, line) ==
    [type |-> type, name |-> name, file |-> file, line |-> line]

\* lines 370, 376-383: lineNumber stays 0 unless getLineNumber gives a
\* number; a line number is a 32-bit value, which the conversion to jint keeps
LineNumber(cs) == IF cs.lineNumber.some THEN cs.lineNumber.v ELSE 0

\* lines 365-392: the stack trace element of one call site
FrameOf(cs) ==
    StackTraceElement(StringOr(cs.typeName, UnknownName), FrameName(cs),
                      cs.fileName, LineOrSentinel(cs.fileName, LineNumber(cs)))

\* lines 399-426: the dummy trace entry
DummyFrame(x) ==
    StackTraceElement(UnknownName, UnknownName, x.resource,
                      LineOrSentinel(x.resource, MessageLine(x)))

\* lines 312, 355: the stack helper is called and returns an array
HasArray(x) == x.isObject /\ x.stack.kind = "array"

\* lines 362-396: the loop left early with error = true
LoopError(x) == \E i \in DOMAIN x.stack.sites : ~x.stack.sites[i].isObject

\* lines 359-396 filling the array from its end
ConvertedReversed(sites) ==
    [i \in DOMAIN sites |-> FrameOf(sites[Len(sites) + 1 - i])]

\* lines 359-396: element i of the array is made from call site i
Converted(sites) == [i \in DOMAIN sites |-> FrameOf(sites[i])]

\* lines 352-427: stackTrace
StackTrace(x) ==
    IF HasArray(x) /\ ~LoopError(x)
    THEN Converted(x.stack.sites)
    ELSE <<DummyFrame(x)>>

\* lines 434-437 with the cause left out
V8JSExceptionWithoutCause(x, w) ==
    [made |-> TRUE, message |-> ExceptionMessage(x), frames |-> StackTrace(x),
     cause |-> 0]

\* lines 434-437: the new V8JSException
V8JSException(x, w) ==
    [made |-> TRUE, message |-> ExceptionMessage(x), frames |-> StackTrace(x),
     cause |-> CauseException(w)]

\* line 298: the wrapped V8Exception is thrown again, nothing is built
Rethrown == [made |-> FALSE, message |-> <<>>, frames |-> <<>>, cause |-> 0]

\* what forwardV8ExceptionToJNI builds for exception x with holder w
Built(x, w) == IF Reuses(w) THEN Rethrown ELSE V8JSException(x, w)

\* the values of the "name" and "message" properties, of the resource name
\* and the line number of the message
Names == {NoString, Just(<<>>), Just(SyntaxErrorName), Just(TypeErrorName)}

Messages == {NoString, Just(Boom)}

Resources == {NoString, Just(AppJs)}

Lines == {NoInt, Just(0), Just(12)}

\* an element of the stack array that is no object
NotACallSite ==
    [isObject |-> FALSE, fileName |-> NoString, methodName |-> NoString,
     functionName |-> NoString, typeName |-> NoString, lineNumber |-> NoInt]

\* the call sites: objects with every combination of accessor results
CallSites ==
    [isObject : {TRUE}, fileName : {NoString, Just(AppJs)},
     methodName : {NoString, Just(<<"m">>)},
     functionName : {NoString, Just(<<"f">>)},
     typeName : {NoString, Just(<<"T">>)},
     lineNumber : {NoInt, Just(0), Just(7)}]

\* a call site with every accessor result present
FullCallSite ==
    [isObject |-> TRUE, fileName |-> Just(AppJs), methodName |-> Just(<<"m">>),
     functionName |-> Just(<<"f">>), typeName |-> Just(<<"T">>),
     lineNumber |-> Just(7)]

\* a call site with no accessor result but a line number
BareCallSite ==
    [isObject |-> TRUE, fileName |-> NoString, methodName |-> NoString,
     functionName |-> NoString, typeName |-> NoString, lineNumber |-> Just(7)]

\* a call site with a file name and the line number 0
FileCallSite ==
    [isObject |-> TRUE, fileName |-> Just(AppJs), methodName |-> NoString,
     functionName |-> Just(<<"f">>), typeName |-> NoString,
     lineNumber |-> Just(0)]

\* the elements of the longer arrays
SomeElements == {FullCallSite, BareCallSite, FileCallSite, NotACallSite}

\* the arrays of n elements
RECURSIVE ArraysOf(_)
ArraysOf(n) ==
    IF n = 0 THEN {<<>>}
    ELSE {Append(a, cs) : a \in ArraysOf(n - 1), cs \in SomeElements}

NoArray == {[kind |-> k, sites |-> <<>>] : k \in {"fails", "other"}}

\* what the stack helper may return: no array, an array of one element with
\* every combination of accessor results, or a longer array
Stacks ==
    NoArray \union
    {[kind |-> "array", sites |-> <<cs>>] : cs \in CallSites} \union
    {[kind |-> "array", sites |-> a] :
        a \in UNION {ArraysOf(n) : n \in 0..MaxFrames}}

\* a few of them
FewStacks ==
    NoArray \union
    {[kind |-> "array", sites |-> a] :
        a \in {<<>>, <<FullCallSite>>, <<NotACallSite>>}}

\* a value that is no object: it has no properties and no stack
Primitives ==
    [isObject : {FALSE}, str : {Boom}, message : {NoString}, name : {NoString},
     resource : Resources, line : Lines, stack : {[kind |-> "fails", sites |-> <<>>]}]

\* objects with every name, message and location, and a few stacks
ObjectsByMessage ==
    [isObject : {TRUE}, str : {<<>>}, message : Messages, name : Names,
     resource : Resources, line : Lines, stack : FewStacks]

\* objects with one name and message, and every stack
ObjectsByStack ==
    [isObject : {TRUE}, str : {<<>>}, message : {Just(Boom)},
     name : {Just(TypeErrorName)}, resource : Resources, line : {Just(12)},
     stack : Stacks]

\* script code has thrown a value of its own (EnterScript, ScriptThrow)
ThrownByScript ==
    /\ throwables = <<>> /\ holders = <<>> /\ bridges = <<>> /\ known = {}
    /\ caught = ScriptError
    /\ nFaults = 0 /\ nEntries = 1 /\ wrapRet = "none"
    /\ excArg \in Primitives \union ObjectsByMessage \union ObjectsByStack

\* a fault of a host function has been wrapped (EnterScript, CallHost,
\* HostThrow, forwardJNIExceptionToV8)
ThrownByHost ==
    /\ throwables = <<Throwable("Other", 0)>>
    /\ holders = <<NewHolder(1)>> /\ bridges = <<>> /\ known = {}
    /\ caught = JavaError(1)
    /\ nFaults = 1 /\ nEntries = 1 /\ wrapRet = "true"
    /\ excArg \in ObjectsByMessage \union ObjectsByStack

\* a V8Exception the host received earlier has been thrown by a host function
\* and wrapped (EnterScript, ScriptThrow, forwardV8ExceptionToJNI,
\* EnterScript, CallHost, HostRethrow, forwardJNIExceptionToV8)
RethrownByHost ==
    /\ throwables = <<Throwable("V8JSException", 0), Throwable("V8Exception", 1)>>
    /\ holders = <<NewHolder(2)>>
    /\ bridges = <<[holder |-> 0, held |-> 0, result |-> 2]>>
    /\ known = {2}
    /\ caught = JavaError(1)
    /\ nFaults = 0 /\ nEntries = 2 /\ wrapRet = "true"
    /\ excArg \in ObjectsByMessage

InboundInit ==
    /\ LoaderInit(NoFiles)
    /\ PathIdle
    /\ jniPending = 0 /\ engine = "alive" /\ bpc = "script"
    /\ ThrownByScript \/ ThrownByHost \/ RethrownByHost
    /\ raised = Rethrown
    /\ LockIdle
    /\ PlatformIdle
    /\ FrameIdle

\* BGJSV8Engine::forwardV8ExceptionToJNI for the exception excArg describes
ForwardException ==
    /\ Alive /\ bpc = "script" /\ caught # NoException
    /\ raised' = Built(excArg, HolderOf(caught))
    /\ ForwardV8(caught)
    /\ caught' = NoException
    /\ bpc' = "host"
    /\ UNCHANGED <<jniPending, holders, engine, nFaults, nEntries, wrapRet>>
    /\ UNCHANGED <<excArg, loaderVars, pathVars, lockVars, platformVars, frameVars>>

InboundNext == ForwardException

InboundSpec == InboundInit /\ [][InboundNext]_vars

(***************************************************************************)
(* The engine lock.  The host-facing operations parseJSON, require and     *)
(* runScript (lines 1489-1590) construct a v8::Locker first and destroy it *)
(* on return; registerModuleNative (lines 1591-1595) and registerModule    *)
(* (lines 447-455) construct none.  A thread is                            *)
(*   "waiting"      in the constructor of its v8::Locker,                  *)
(*   "locked"       past it, with its scopes and TryCatch set up,          *)
(*   "maps"         in lines 609-631 of require, which read and write the  *)
(*                  module cache and the registry of native modules,       *)
(*   "script"       in script code (a module body, JSON.parse, a script),  *)
(*   "nested"       in a require call made by script code,                 *)
(*   "bridge"       in forwardV8ExceptionToJNI,                            *)
(*   "convert"      in v8value2jobject for the result,                     *)
(*   "registering"  in registerJavaModule, writing the registry,           *)
(*   "aborted"      when ToLocalChecked of line 1582 ended the process.    *)
(***************************************************************************)
LockedOperations == {"parseJSON", "require", "runScript"}

At(op, pc) == [op |-> op, pc |-> pc]

\* the process has been aborted
Aborted == \E t \in Threads : threads[t].pc = "aborted"

\* the constructor of v8::Locker, entered whoever holds the lock
AvailableAlways(t) == TRUE

\* the constructor of v8::Locker returns once no other thread holds the lock
Available(t) == lockOwner = 0

\* a host thread calls parseJSON, require or runScript
CallEngine(t) ==
    /\ ~Aborted /\ threads[t] = Outside
    /\ \E op \in LockedOperations :
        threads' = [threads EXCEPT ![t] = At(op, "waiting")]
    /\ UNCHANGED lockOwner
    /\ UNCHANGED <<loaderVars, pathVars, bridgeVars, inboundVars, platformVars,
                   frameVars>>

\* v8::Locker l(isolate), lines 1494, 1514 and 1566
Lock(t) ==
    /\ ~Aborted /\ threads[t].pc = "waiting"
    /\ Available(t)
    /\ lockOwner' = t
    /\ threads' = [threads EXCEPT ![t].pc = "locked"]
    /\ UNCHANGED <<loaderVars, pathVars, bridgeVars, inboundVars, platformVars,
                   frameVars>>

\* the operation proper begins: engine->require (line 1522), engine->parseJSON
\* (line 1501), Script::Compile and Run (lines 1577-1582); compiling a script
\* with a syntax error ends the process
Begin(t) ==
    /\ ~Aborted /\ threads[t].pc = "locked"
    /\ \E pc \in (IF threads[t].op = "require" THEN {"maps"}
                  ELSE IF threads[t].op = "runScript" THEN {"script", "aborted"}
                  ELSE {"script"}) :
        threads' = [threads EXCEPT ![t].pc = pc]
    /\ UNCHANGED lockOwner
    /\ UNCHANGED <<loaderVars, pathVars, bridgeVars, inboundVars, platformVars,
                   frameVars>>

\* lines 609-631 of require are done: the cached value is returned, a module
\* is evaluated, or nothing was found
Looked(t) ==
    /\ ~Aborted /\ threads[t].pc = "maps"
    /\ \E pc \in {"convert", "script", "bridge"} :
        threads' = [threads EXCEPT ![t].pc = pc]
    /\ UNCHANGED lockOwner
    /\ UNCHANGED <<loaderVars, pathVars, bridgeVars, inboundVars, platformVars,
                   frameVars>>

\* script code calls require, and the call returns
NestedRequire(t) ==
    /\ ~Aborted
    /\ \/ threads[t].pc = "script" /\ threads[t].op # "parseJSON"
          /\ threads' = [threads EXCEPT ![t].pc = "nested"]
       \/ threads[t].pc = "nested"
          /\ threads' = [threads EXCEPT ![t].pc = "script"]
    /\ UNCHANGED lockOwner
    /\ UNCHANGED <<loaderVars, pathVars, bridgeVars, inboundVars, platformVars,
                   frameVars>>

\* script code ends: with a value, which is converted, or with an exception,
\* which forwardV8ExceptionToJNI turns into a host exception
Finish(t) ==
    /\ ~Aborted /\ threads[t].pc = "script"
    /\ \E pc \in {"convert", "bridge"} :
        threads' = [threads EXCEPT ![t].pc = pc]
    /\ UNCHANGED lockOwner
    /\ UNCHANGED <<loaderVars, pathVars, bridgeVars, inboundVars, platformVars,
                   frameVars>>

\* the operation returns and the destructor of its v8::Locker runs
Unlock(t) ==
    /\ ~Aborted /\ threads[t].pc \in {"convert", "bridge"}
    /\ lockOwner' = IF lockOwner = t THEN 0 ELSE lockOwner
    /\ threads' = [threads EXCEPT ![t] = Outside]
    /\ UNCHANGED <<loaderVars, pathVars, bridgeVars, inboundVars, platformVars,
                   frameVars>>

\* Java_ag_boersego_bgjs_V8Engine_registerModuleNative: registerJavaModule
\* writes _javaModules and _modules (lines 490-491), and returns
registerModuleNative(t) ==
    /\ ~Aborted
    /\ \/ threads[t] = Outside
          /\ threads' = [threads EXCEPT ![t] = At("registerModuleNative", "registering")]
       \/ threads[t].pc = "registering"
          /\ threads' = [threads EXCEPT ![t] = Outside]
    /\ UNCHANGED lockOwner
    /\ UNCHANGED <<loaderVars, pathVars, bridgeVars, inboundVars, platformVars,
                   frameVars>>

LockInit ==
    /\ LoaderInit(NoFiles)
    /\ PathIdle
    /\ BridgeIdle
    /\ InboundIdle
    /\ LockIdle
    /\ PlatformIdle
    /\ FrameIdle

LockNext ==
    \E t \in Threads :
        \/ CallEngine(t)
        \/ Lock(t)
        \/ Begin(t)
        \/ Looked(t)
        \/ NestedRequire(t)
        \/ Finish(t)
        \/ Unlock(t)
        \/ registerModuleNative(t)

LockSpec == LockInit /\ [][LockNext]_vars

(***************************************************************************)
(* The bring-up of the scripting runtime.  createContext (lines 1022-1043) *)
(* tests and sets the function-local static isPlatformInitialized without  *)
(* a lock or an atomic, runs the bring-up block when it found the flag     *)
(* unset, and creates the isolate of the engine.  Engines are created by   *)
(* any host thread; a thread is                                            *)
(*   outside  not in createContext                                         *)
(*   entered  before the test of the flag on line 1025                     *)
(*   inside   in the block, before the flag is set on line 1026            *)
(*   flagged  in the block, before the bring-up of lines 1027-1037         *)
(*   isolate  before Isolate::New on line 1043                             *)
(***************************************************************************)
\* a host thread calls createContext of a new engine
createContext(t) ==
    /\ creating[t] = "outside"
    /\ contexts < MaxContexts
    /\ contexts' = contexts + 1
    /\ creating' = [creating EXCEPT ![t] = "entered"]
    /\ UNCHANGED <<isPlatformInitialized, bringUps, platformReady, isolates>>
    /\ UNCHANGED <<loaderVars, pathVars, bridgeVars, inboundVars, lockVars, frameVars>>

\* if (!isPlatformInitialized), line 1025
TestFlag(t) ==
    /\ creating[t] = "entered"
    /\ creating' = [creating EXCEPT ![t] =
                        IF isPlatformInitialized THEN "isolate" ELSE "inside"]
    /\ UNCHANGED <<isPlatformInitialized, bringUps, platformReady, isolates, contexts>>
    /\ UNCHANGED <<loaderVars, pathVars, bridgeVars, inboundVars, lockVars, frameVars>>

\* isPlatformInitialized = true, line 1026
SetFlag(t) ==
    /\ creating[t] = "inside"
    /\ isPlatformInitialized' = TRUE
    /\ creating' = [creating EXCEPT ![t] = "flagged"]
    /\ UNCHANGED <<bringUps, platformReady, isolates, contexts>>
    /\ UNCHANGED <<loaderVars, pathVars, bridgeVars, inboundVars, lockVars, frameVars>>

\* CreateDefaultPlatform, V8::InitializePlatform, V8::Initialize and
\* SetFlagsFromString, lines 1027-1037
InitializePlatform(t) ==
    /\ creating[t] = "flagged"
    /\ bringUps' = bringUps + 1
    /\ platformReady' = TRUE
    /\ creating' = [creating EXCEPT ![t] = "isolate"]
    /\ UNCHANGED <<isPlatformInitialized, isolates, contexts>>
    /\ UNCHANGED <<loaderVars, pathVars, bridgeVars, inboundVars, lockVars, frameVars>>

\* _isolate = v8::Isolate::New(create_params), line 1043, and the rest of
\* createContext
NewIsolate(t) ==
    /\ creating[t] = "isolate"
    /\ isolates' = Append(isolates, [by |-> t, ready |-> platformReady])
    /\ creating' = [creating EXCEPT ![t] = "outside"]
    /\ UNCHANGED <<isPlatformInitialized, bringUps, platformReady, contexts>>
    /\ UNCHANGED <<loaderVars, pathVars, bridgeVars, inboundVars, lockVars, frameVars>>

PlatformInit ==
    /\ LoaderInit(NoFiles)
    /\ PathIdle
    /\ BridgeIdle
    /\ InboundIdle
    /\ LockIdle
    /\ PlatformIdle
    /\ FrameIdle

PlatformNext ==
    \E t \in Threads :
        \/ createContext(t)
        \/ TestFlag(t)
        \/ SetFlag(t)
        \/ InitializePlatform(t)
        \/ NewIsolate(t)

PlatformSpec == PlatformInit /\ [][PlatformNext]_vars

(***************************************************************************)
(* The animation frame globals.  js_global_requestAnimationFrame (lines    *)
(* 839-864) hands a script function to the requestAnimationFrame method of *)
(* a host view and js_global_cancelAnimationFrame (lines 874-892) hands an *)
(* id to its cancelAnimationFrame method.  The view gives every request an *)
(* id that no request it still holds has.                                  *)
(***************************************************************************)
\* the ids the host view hands out
FrameIds == 1..MaxAnimationCalls

\* the numbers a script passes to cancelAnimationFrame
CancelArgs == FrameIds \cup {-1}

\* the return value slot after the callback has written the values of
\* writes to it in order
SlotAfter(writes) ==
    IF writes = <<>> THEN UndefinedSlot ELSE Int32Slot(writes[Len(writes)])

\* what js_global_requestAnimationFrame leaves behind: with a function and a
\* view it stores the id (line 850) and, past the if statement, -1 (line
\* 863); otherwise it raises ReferenceError and returns (lines 857-861)
RequestReturn(wellFormed, id) ==
    IF wellFormed THEN Returned(SlotAfter(<<id, -1>>), FALSE)
    ELSE Returned(UndefinedSlot, TRUE)

\* one call of a script global, as the history keeps it
FrameCall(fn, wellFormed, id, ret) ==
    [fn |-> fn, wellFormed |-> wellFormed, id |-> id, ret |-> ret]

\* requestAnimationFrame(args) called by a script; id is what the view
\* returns when it is asked
js_global_requestAnimationFrame(wellFormed, id) ==
    /\ Len(frameCalls) < MaxAnimationCalls
    /\ id \notin scheduled
    /\ scheduled' = IF wellFormed THEN scheduled \cup {id} ELSE scheduled
    /\ frameRet' = RequestReturn(wellFormed, id)
    /\ frameCalls' = Append(frameCalls,
                            FrameCall("requestAnimationFrame", wellFormed, id,
                                      RequestReturn(wellFormed, id).value))
    /\ UNCHANGED <<loaderVars, pathVars, bridgeVars, inboundVars, lockVars, platformVars>>

\* cancelAnimationFrame(id, view) called by a script: lines 878-889, and
\* SetUndefined on line 891 in both branches
js_global_cancelAnimationFrame(wellFormed, id) ==
    /\ Len(frameCalls) < MaxAnimationCalls
    /\ scheduled' = IF wellFormed THEN scheduled \ {id} ELSE scheduled
    /\ frameRet' = Returned(UndefinedSlot, ~wellFormed)
    /\ frameCalls' = Append(frameCalls,
                            FrameCall("cancelAnimationFrame", wellFormed, id,
                                      UndefinedSlot))
    /\ UNCHANGED <<loaderVars, pathVars, bridgeVars, inboundVars, lockVars, platformVars>>

FrameInit ==
    /\ LoaderInit(NoFiles)
    /\ PathIdle
    /\ BridgeIdle
    /\ InboundIdle
    /\ LockIdle
    /\ PlatformIdle
    /\ FrameIdle

FrameNext ==
    \/ \E wellFormed \in BOOLEAN, id \in FrameIds :
           js_global_requestAnimationFrame(wellFormed, id)
    \/ \E wellFormed \in BOOLEAN, id \in CancelArgs :
           js_global_cancelAnimationFrame(wellFormed, id)

FrameSpec == FrameInit /\ [][FrameNext]_vars

(***************************************************************************)
(* Properties of the loader.                                               *)
(***************************************************************************)
\* the step is the return of a require call
Returns == lastRet'.seq # lastRet.seq

\* the call that returned last read or evaluated a file, or found none
LoadKinds == {"json", "jsonfail", "script", "compilefail", "evalfail", "overflow", "notfound"}

\* C1: in every run the body of each module file is executed at most once,
\* whatever the sequence of top-level, nested and repeated require calls.
C1_AtMostOnce == \A f \in DOMAIN evalCount : evalCount[f] <= 1

\* C2: once require(id) of a script module has succeeded, every later
\* require(id) returns the identical exported value and the module body has
\* run exactly once in total.
C2_CacheIdentity ==
    LET o == lastRet.ret
    IN  (/\ o.kind # "abort"
         /\ o.arg \in DOMAIN firstOk
         /\ o.pre.seq >= firstOk[o.arg].seq)
            => /\ o.value = firstOk[o.arg].ret.value
               /\ evalCount[firstOk[o.arg].ret.file] = 1

\* the candidates of an id in the order of the resolution chain
Candidates(id) ==
    <<id, id \o PackageJson, id \o IndexJs, id \o ExtJs, id \o ExtJson>>

\* the position of the first candidate that exists, 0 when none does
FirstExisting(id) ==
    LET hits == {i \in 1..5 : Candidates(id)[i] \in DOMAIN files}
    IN  IF hits = {} THEN 0 ELSE SetMin(hits)

\* id/package.json parses to an object whose main target exists
MainResolves(id) ==
    /\ (id \o PackageJson) \in DOMAIN files
    /\ files[id \o PackageJson].kind = "json"
    /\ files[id \o PackageJson].valid
    /\ files[id \o PackageJson].hasMain
    /\ (id \o Slash \o files[id \o PackageJson].main) \in DOMAIN files

\* C3: a call that no cache check and no native module answers settles on
\* the first candidate that exists, in the order exact id, id/package.json
\* (redirecting to id/<main>), id/index.js, id.js, id.json.
C3_ResolutionPrecedence ==
    LET o == lastRet.ret
        first == FirstExisting(o.base)
    IN  o.kind \in LoadKinds =>
            /\ first = 0 => o.kind = "notfound"
            /\ first \in {1, 3, 4, 5} =>
                   o.kind # "notfound" /\ o.file = Candidates(o.base)[first]
            /\ (first = 2 /\ MainResolves(o.base)) =>
                   /\ o.kind # "notfound"
                   /\ o.file = o.base \o Slash \o files[o.base \o PackageJson].main

\* C3 witness: with foo.js and foo.json both present, require("foo") has
\* evaluated foo.js.
C3_Witness ==
    /\ FooJs \in DOMAIN files
    /\ FooJson \in DOMAIN files
    /\ lastRet.ret.arg = Foo
    /\ lastRet.ret.kind = "script"
    /\ lastRet.ret.file = FooJs

\* C3 second case: with only foo/index.js present, require("foo") has
\* evaluated foo/index.js.
C3_WitnessIndex ==
    /\ files = FsIndexOnly
    /\ lastRet.ret.arg = Foo
    /\ lastRet.ret.kind = "script"
    /\ lastRet.ret.file = FooIndexJs

\* the values a registration callback leaves in module.exports
NativeTags == {"native-exports", "native-assigned"}

\* C4 as claimed: whenever n is registered, require(n) returns the exports
\* produced by n's registration callback and never those of a file module.
C4_NativeShadowsAlways ==
    LET o == lastRet.ret
    IN  (o.kind \notin {"init", "abort"} /\ o.pre.registered /\ o.arg = o.base)
            => o.value.by \in NativeTags /\ o.value.of = o.base

\* C4 amended: whenever n is registered, require(n) returns the exports
\* produced by n's registration callback and reads no file, unless the cache
\* already holds an entry under n; then that entry is returned.
C4_NativeShadowsUnlessCached ==
    [][LET o == lastRet'.ret
       IN  (Returns /\ o.kind # "abort" /\ o.pre.registered /\ o.arg = o.base)
               => IF o.pre.cached
                  THEN o.kind = "cache" /\ o.file = o.base /\ o.value = cache[o.base]
                  ELSE /\ o.kind = "native"
                       /\ o.value.by \in NativeTags
                       /\ o.value.of = o.base
                       /\ o.reads = <<>>]_vars

\* C4 witness: a file named n exists, n is registered and not cached, and
\* require(n) has returned the exports of the registration callback.
C4_Witness ==
    /\ lastRet.ret.kind = "native"
    /\ lastRet.ret.base \in DOMAIN files
    /\ lastRet.ret.value.by \in NativeTags

\* C5: a require call that finds no candidate returns no value with the
\* "Cannot find module" exception pending and leaves the cache as it was.
C5_MissingModule ==
    [][LET o == lastRet'.ret
       IN  /\ (Returns /\ o.kind \in LoadKinds /\ FirstExisting(o.base) = 0)
                  => o.kind = "notfound"
           /\ (Returns /\ o.kind = "notfound")
                  => /\ o.value = NoValue
                     /\ o.exc = CannotFindModule(o.base)
                     /\ cache' = cache
                     /\ lastRet'.host => pending' = o.exc]_vars

\* C5 witness: the host's require("foo") found no candidate and has
\* returned with the exception pending.
C5_Witness ==
    /\ lastRet.ret.kind = "notfound"
    /\ FirstExisting(lastRet.ret.base) = 0
    /\ hostPc = "returned"
    /\ pending = CannotFindModule(lastRet.ret.base)

\* C6: when a resolved script module does not compile or its body raises,
\* require returns no value, the raised exception is the one pending when
\* require returns, and the cache gets no entry for that module.
C6_EvaluationFault ==
    [][LET o == lastRet'.ret
       IN  (Returns /\ o.kind \in {"compilefail", "evalfail", "overflow"})
               => /\ o.value = NoValue
                  /\ o.exc # None
                  /\ o.kind = "compilefail" => o.exc = CompileError(o.base)
                  /\ (o.kind = "evalfail" /\ pending # None) => o.exc = pending
                  /\ (o.kind = "evalfail" /\ pending = None) => o.exc = BodyError(o.file)
                  /\ lastRet'.host => pending' = o.exc
                  /\ cache' = cache
                  /\ o.file \notin DOMAIN cache']_vars

\* C6 witness: a module body raised and the host's require has returned
\* with that exception pending.
C6_Witness ==
    /\ lastRet.ret.kind = "evalfail"
    /\ lastRet.ret.exc = BodyError(lastRet.ret.file)
    /\ hostPc = "returned"
    /\ pending = lastRet.ret.exc

\* C7: when id/package.json has a main field m and id/m exists, require(id)
\* evaluates id/m, returns its module.exports and caches it under id/m; once
\* a file is cached it is not evaluated again.
C7_PackageMain ==
    [][LET o == lastRet'.ret
           main == o.base \o Slash \o files[o.base \o PackageJson].main
       IN  /\ (/\ Returns
               /\ o.kind # "abort"
               /\ ~o.pre.cached
               /\ ~o.pre.registered
               /\ o.base \notin DOMAIN files
               /\ MainResolves(o.base))
                  => /\ o.file = main
                     /\ o.kind \in {"script", "cache", "evalfail", "compilefail", "overflow"}
                     /\ o.kind = "script"
                            => /\ o.value.of = main
                               /\ o.value.by \in {"exports", "assigned"}
                               /\ cache'[main] = o.value
                     /\ o.kind = "cache"
                            => o.value = cache[main] /\ evalCount' = evalCount
           /\ \A f \in DOMAIN cache \cap DOMAIN evalCount :
                  evalCount'[f] = evalCount[f]]_vars

\* C7 witness: after foo/lib.js was loaded through foo/package.json, a later
\* require("foo") was answered from the cache entry foo/lib.js.
C7_Witness ==
    /\ MainResolves(Foo)
    /\ lastRet.ret.arg = Foo
    /\ lastRet.ret.kind = "cache"
    /\ lastRet.ret.file = FooLibJs
    /\ evalCount[FooLibJs] = 1

\* none of the candidates of id exists
NoCandidate(id) ==
    /\ id \notin DOMAIN files
    /\ ~MainResolves(id)
    /\ (id \o IndexJs) \notin DOMAIN files
    /\ (id \o ExtJs) \notin DOMAIN files
    /\ (id \o ExtJson) \notin DOMAIN files

\* C8: require fails with module-not-found if and only if none of the
\* candidates exists, also when id/package.json has no usable main field.
C8_NotFoundOnlyOnExhaustion ==
    LET o == lastRet.ret
    IN  o.kind \in LoadKinds => (o.kind = "notfound" <=> NoCandidate(o.base))

\* C9 as claimed: every require(n) of a registered name n reads no file and
\* returns the cached exports of n's callback, which ran exactly once.
C9_NativeLoadsOnceAlways ==
    LET o == lastRet.ret
    IN  (o.kind \notin {"init", "abort"} /\ o.pre.registered)
            => /\ o.reads = <<>>
               /\ cbCalls[o.base] = 1
               /\ o.value.by \in NativeTags
               /\ cache[o.base] = o.value

\* C9 amended: the first require(n) of a registered name n that finds no
\* cache entry under n reads no file, invokes the callback once with fresh
\* objects and caches module.exports; a require(n) that finds an entry under
\* n returns it without invoking a callback; no callback runs twice.
C9_NativeLoadsOnce ==
    [][LET o == lastRet'.ret
       IN  /\ (Returns /\ o.kind # "abort" /\ o.pre.registered /\ ~o.pre.cached)
                  => /\ o.kind = "native"
                     /\ o.reads = <<>>
                     /\ cbCalls' = [cbCalls EXCEPT ![o.base] = @ + 1]
                     /\ o.value.id >= nextObj
                     /\ o.value.by \in NativeTags
                     /\ cache' = (o.base :> o.value) @@ cache
           /\ (Returns /\ o.kind # "abort" /\ o.pre.registered /\ o.pre.cached)
                  => /\ o.kind = "cache"
                     /\ o.reads = <<>>
                     /\ o.value = cache[o.base]
                     /\ cbCalls' = cbCalls
                     /\ cache' = cache
           /\ \A n \in NativeNames : cbCalls'[n] <= 1]_vars

\* C9 witness: a later require(n) was answered from the entry the first
\* native load of n cached.
C9_Witness ==
    /\ lastRet.ret.kind = "cache"
    /\ lastRet.ret.pre.registered
    /\ lastRet.ret.value.by \in NativeTags
    /\ cbCalls[lastRet.ret.base] = 1

\* C10: after a module body returns normally, the value cached and returned
\* is module.exports at that moment, the reassigned value when the body
\* reassigned it, never the wrapper's return value.
C10_ExportSnapshot ==
    [][LET o == lastRet'.ret
           top == stack[Len(stack)]
       IN  (Returns /\ o.kind = "script")
               => /\ o.value # Undefined
                  /\ o.value # NoValue
                  /\ files[o.file].reassign
                         => /\ o.value.by = "assigned"
                            /\ o.value.of = o.file
                            /\ o.value.id # top.exportsObj.id
                  /\ ~files[o.file].reassign => o.value = top.exportsObj
                  /\ cache'[o.file] = o.value]_vars

\* C10 witness: a body that reassigned module.exports has returned and the
\* reassigned value is the one returned and cached.
C10_Witness ==
    /\ lastRet.ret.kind = "script"
    /\ files[lastRet.ret.file].reassign
    /\ lastRet.ret.value.by = "assigned"
    /\ cache[lastRet.ret.file] = lastRet.ret.value

\* f minus its last path segment: the directory that contains the file f
ContainingDirectory(f) ==
    IF FindLastOf(f, "/") = NPOS THEN <<>> ELSE Prefix(f, FindLastOf(f, "/"))

\* C11: the require function and __dirname handed to the body of a script
\* file f are bound to the directory that contains f, for every f, one whose
\* name holds no '/' included, at every nesting depth.
C11_DirectoryBinding ==
    \A i \in 1..Len(stack) :
        stack[i].pathName = ContainingDirectory(stack[i].fileName)

\* C12: once require has resolved an id to a JSON file and parsed it, the
\* cache holds the parsed value under the file name that was read.
C12_JsonCached ==
    lastRet.ret.kind = "json"
        => /\ Cached(lastRet.ret.file)
           /\ cache[lastRet.ret.file] = lastRet.ret.value

C14_Idempotent == Len(normalized) = 2 => normalized[2] = normalized[1]

\* C15: a leading ".." segment is preserved: the result of normalizing a path
\* whose first segment is ".." starts with the segment ".." too, so that
\* normalize("../x") = "../x".
C15_LeadingDotDot ==
    (Len(normalized) >= 1 /\ SplitPath(pathArg)[1] = DotDot)
        => SplitPath(normalized[1])[1] = DotDot

\* a segment that is neither "." nor ".."
Ordinary(seg) == seg # Dot /\ seg # DotDot

\* the paths the general rule of C16 speaks of: two segments or more, the
\* first one not "..", and every ".." right after an ordinary segment
Collapsible(parts) ==
    /\ Len(parts) >= 2
    /\ parts[1] # DotDot
    /\ \A j \in 2..Len(parts) : parts[j] = DotDot => Ordinary(parts[j - 1])

\* the segments before the final one that the rule keeps, from the j-th on:
\* the ordinary ones that no ".." follows
RECURSIVE KeptFrom(_, _)
KeptFrom(parts, j) ==
    IF j >= Len(parts) THEN <<>>
    ELSE (IF Ordinary(parts[j]) /\ parts[j + 1] # DotDot THEN <<parts[j]>> ELSE <<>>)
             \o KeptFrom(parts, j + 1)

\* the segments of a path, the empty ones left out
NamedSegments(p) == SelectSeq(SplitPath(p), LAMBDA seg : seg # <<>>)

PathABDotB == <<"a", "/", ".", "/", "b">>
PathABUpC == <<"a", "/", "b", "/", ".", ".", "/", "c">>

\* C16: normalize("a/./b") = "a/b" and normalize("a/b/../c") = "a/c"; for a
\* path of two segments or more that does not start with "..", every "."
\* before the final segment is dropped alone, every ".." that follows an
\* ordinary segment is dropped together with that segment, and the final
\* segment is appended unchanged.
C16_SegmentCollapsing ==
    Len(normalized) >= 1
        => /\ pathArg = PathABDotB => normalized[1] = <<"a", "/", "b">>
           /\ pathArg = PathABUpC => normalized[1] = <<"a", "/", "c">>
           /\ Collapsible(SplitPath(pathArg))
                  => NamedSegments(normalized[1])
                         = KeptFrom(SplitPath(pathArg), 1)
                               \o <<SplitPath(pathArg)[Len(SplitPath(pathArg))]>>

\* C16 witness: "a/b/../c" has been normalized to "a/c".
C16_Witness ==
    /\ pathArg = PathABUpC
    /\ normalized # <<>>
    /\ normalized[1] = <<"a", "/", "c">>


(***************************************************************************)
(* Properties of the exception bridge.                                     *)
(***************************************************************************)
\* the calls of forwardV8ExceptionToJNI that found a JavaError object: a host
\* exception wrapped outward came back inward
RoundTrips == {j \in DOMAIN bridges : bridges[j].holder # 0}

\* the wrapped host exception of round trip j is an engine exception
HeldIsV8Exception(j) == throwables[bridges[j].held].kind = "V8Exception"

\* the exception thrown by round trip j is a new V8Exception around a new
\* V8JSException whose cause is the wrapped host exception
WrapsHeld(j) ==
    /\ bridges[j].result # bridges[j].held
    /\ throwables[bridges[j].result].kind = "V8Exception"
    /\ throwables[throwables[bridges[j].result].cause].kind = "V8JSException"
    /\ throwables[throwables[bridges[j].result].cause].cause = bridges[j].held

Collected(w) == ~holders[w].armed

\* C18: each envelope's host exception reference has been released at most
\* once; it has been released exactly when the finalizer of its own wrapper
\* has run, which happens only after the wrapper became unreachable; the
\* exception script code is throwing, which is the one the inbound bridge
\* reads, is reachable, so that its envelope is neither released nor deleted;
\* and once all N wrappers are collected the releases number exactly N.
C18_ReleasedExactlyOnce ==
    \A w \in DOMAIN holders :
        /\ holders[w].released <= 1
        /\ holders[w].released = 1 <=> Collected(w)
        /\ holders[w].deleted <=> Collected(w)
        /\ Collected(w) => ~holders[w].reachable
        /\ caught = JavaError(w) => holders[w].reachable

\* two envelopes were created, one of them was bridged inward twice, and both
\* wrappers have been collected
C18_Witness ==
    /\ Len(holders) = 2
    /\ \A w \in DOMAIN holders : Collected(w) /\ holders[w].released = 1
    /\ \E i, j \in RoundTrips : i < j /\ bridges[i].holder = bridges[j].holder


\* C19: each envelope created by an outbound wrap eventually has its host
\* exception reference released, also when the engine is destroyed while the
\* wrapper is still alive.  Nothing runs in the isolate of a destroyed
\* engine, so a reference is released eventually only if it has been
\* released by the time the destructor returns.
C19_EveryEnvelopeReleased ==
    engine = "destroyed" => \A w \in DOMAIN holders : holders[w].released >= 1


\* the number of V8Exception objects on the cause chain that starts at t
RECURSIVE Wrappers(_)
Wrappers(t) ==
    IF t = 0 THEN 0
    ELSE (IF throwables[t].kind = "V8Exception" THEN 1 ELSE 0)
             + Wrappers(throwables[t].cause)

\* round trip j brought back an exception an earlier inbound bridge threw
CrossedBefore(j) == \E i \in 1..(j - 1) : bridges[i].result = bridges[j].held

\* C20: a fault that crosses the boundary repeatedly reaches the host, after
\* the second and every later inbound bridge, as the identical object the
\* first inbound bridge threw, and no host exception has more than one
\* V8Exception on its cause chain.
C20_NoWrapGrowth ==
    /\ \A j \in RoundTrips : CrossedBefore(j) => bridges[j].result = bridges[j].held
    /\ \A t \in DOMAIN throwables : Wrappers(t) <= 1

\* one fault has crossed the boundary inward three times, the second and the
\* third time out of a JavaError object
C20_Witness ==
    /\ Len(bridges) = 3
    /\ {2, 3} \subseteq RoundTrips
    /\ bridges[2].held = bridges[1].result
    /\ bridges[3].held = bridges[1].result
    /\ bridges[3].result = bridges[1].result


\* the step is a call of forwardJNIExceptionToV8: control returns from the
\* host function to script code
Wraps == bpc = "callback" /\ bpc' = "script"

\* C21: when no host fault is pending, forwardJNIExceptionToV8 returns false,
\* creates no envelope and no host exception object, and leaves the exception
\* pending in script code as it was.
C21_NoFaultNoWrap ==
    [][(Wraps /\ jniPending = 0)
           => /\ wrapRet' = "false"
              /\ holders' = holders
              /\ throwables' = throwables
              /\ caught' = caught
              /\ jniPending' = 0]_vars

\* a host function has returned without a fault
C21_Witness ==
    /\ wrapRet = "false"
    /\ bpc = "script"
    /\ caught = NoException

\* C26: when a host fault is pending, forwardJNIExceptionToV8 returns true
\* and on return the pending host fault is cleared, exactly one new holder
\* exists, which holds a reference to that fault that has not been released,
\* it belongs to one new JavaError object whose weak callback is set, and
\* that object is the exception pending in script code.
C26_WrapEffect ==
    [][(Wraps /\ jniPending # 0)
           => /\ wrapRet' = "true"
              /\ jniPending' = 0
              /\ Len(holders') = Len(holders) + 1
              /\ SubSeq(holders', 1, Len(holders)) = holders
              /\ holders'[Len(holders')].throwable = jniPending
              /\ holders'[Len(holders')].released = 0
              /\ ~holders'[Len(holders')].deleted
              /\ holders'[Len(holders')].armed
              /\ holders'[Len(holders')].reachable
              /\ caught' = JavaError(Len(holders'))
              /\ throwables' = throwables]_vars

\* a host fault has just been wrapped and is pending in script code
C26_Witness ==
    /\ wrapRet = "true"
    /\ holders # <<>>
    /\ caught = JavaError(Len(holders))
    /\ holders[Len(holders)].armed
    /\ jniPending = 0


(***************************************************************************)
(* Properties of the host exception the inbound bridge builds.             *)
(***************************************************************************)
\* forwardV8ExceptionToJNI has built a new exception for a script exception
\* that is an object
BuiltForObject == raised.made /\ excArg.isObject

\* the exception's name is "SyntaxError"
IsSyntaxError == excArg.name = Just(SyntaxErrorName)

\* the message of the isolate has a line number
HasLine == excArg.line.some /\ excArg.line.v >= 1

\* "[<name>] <rest>"
Bracketed(name, rest) == <<"[">> \o name \o <<"]", " ">> \o rest

\* "<resource>:<line> - <message>"
Located ==
    excArg.resource.v \o <<":">> \o to_string(excArg.line.v) \o <<" ", "-", " ">>
        \o StringOr(excArg.message, <<>>)

\* C22: for a script exception whose name is "SyntaxError" the message is
\* "[SyntaxError] <resource>:<line> - <message>" when the message of the
\* isolate has a resource name and a line number, and has no location prefix
\* otherwise; for every other name it is "[<name>] <message>".
C22_LocationPrefixOrNone ==
    BuiltForObject =>
        raised.message =
            IF IsSyntaxError /\ excArg.resource.some /\ HasLine
            THEN Bracketed(SyntaxErrorName, Located)
            ELSE Bracketed(StringOr(excArg.name, <<>>),
                           StringOr(excArg.message, <<>>))

\* C22, amended: the prefix of a SyntaxError is "<resource>:<line> - " with a
\* resource name and a line number, "<resource> - " with a resource name
\* only, and absent without a resource name; every other name has no prefix.
C22_LocationPrefix ==
    BuiltForObject =>
        raised.message =
            IF IsSyntaxError /\ excArg.resource.some /\ HasLine
            THEN Bracketed(SyntaxErrorName, Located)
            ELSE IF IsSyntaxError /\ excArg.resource.some
            THEN Bracketed(SyntaxErrorName,
                           excArg.resource.v \o <<" ", "-", " ">>
                               \o StringOr(excArg.message, <<>>))
            ELSE Bracketed(StringOr(excArg.name, <<>>),
                           StringOr(excArg.message, <<>>))

\* the message "[SyntaxError] app.js:12 - boom" has been composed
C22_Witness ==
    /\ BuiltForObject
    /\ raised.message =
           <<"[", "S", "y", "n", "t", "a", "x", "E", "r", "r", "o", "r", "]", " ",
             "a", "p", "p", ".", "j", "s", ":", "1", "2", " ", "-", " ",
             "b", "o", "o", "m">>


\* the stack helper returned an array
ReturnsArray == excArg.isObject /\ excArg.stack.kind = "array"

\* every element of the array is a call-site object
WellFormed == \A i \in DOMAIN excArg.stack.sites : excArg.stack.sites[i].isObject

\* C23: when the stack helper returns k >= 1 well-formed call sites, the
\* new exception has exactly k frames, frame i made from call site i; when
\* the helper returns no array or one call site is no object, it has exactly
\* one frame, the synthetic one.
C23_FrameAssembly ==
    raised.made =>
        /\ (ReturnsArray /\ WellFormed /\ Len(excArg.stack.sites) >= 1)
               => /\ Len(raised.frames) = Len(excArg.stack.sites)
                  /\ \A i \in DOMAIN raised.frames :
                         raised.frames[i] = FrameOf(excArg.stack.sites[i])
        /\ (~ReturnsArray \/ ~WellFormed)
               => raised.frames = <<DummyFrame(excArg)>>

\* two different call sites have become two different frames
C23_Witness ==
    /\ raised.made /\ ReturnsArray /\ WellFormed
    /\ Len(raised.frames) = 2
    /\ raised.frames[1] # raised.frames[2]
    /\ raised.frames[1] = FrameOf(excArg.stack.sites[1])


\* the call of forwardV8ExceptionToJNI that built the new exception
LastBridge == bridges[Len(bridges)]

\* the V8JSException inside the V8Exception that call threw
InnerOf(b) == throwables[throwables[b.result].cause]

SyntheticLine ==
    IF ~excArg.resource.some THEN -2 ELSE IF HasLine THEN excArg.line.v ELSE -1

\* C28: every exception the inbound bridge builds has at least one frame;
\* whenever the stack helper yields no usable frames (it fails, returns no
\* array, returns an array of length 0, or a call site is malformed) the
\* frames are exactly one synthetic frame with type and name "<unknown>" and
\* the resource and line of the message of the isolate.
C28_FramesNeverEmpty ==
    raised.made =>
        /\ Len(raised.frames) >= 1
        /\ (~ReturnsArray \/ ~WellFormed \/ excArg.stack.sites = <<>>)
               => raised.frames =
                      <<[type |-> UnknownName, name |-> UnknownName,
                         file |-> excArg.resource, line |-> SyntheticLine]>>

\* C29: the frame of a call site has the getTypeName result or "<unknown>"
\* as type; as name the getMethodName result when present, else the
\* getFunctionName result, else "<anonymous>"; as line -2 exactly when there
\* is no file name, -1 exactly when there is a file name but no line number
\* >= 1, and the line number otherwise.
C29_FrameFields ==
    (raised.made /\ ReturnsArray /\ WellFormed) =>
        \A i \in DOMAIN raised.frames :
            /\ raised.frames[i].type =
                   (IF excArg.stack.sites[i].typeName.some
                    THEN excArg.stack.sites[i].typeName.v ELSE UnknownName)
            /\ raised.frames[i].name =
                   (IF excArg.stack.sites[i].methodName.some
                    THEN excArg.stack.sites[i].methodName.v
                    ELSE IF excArg.stack.sites[i].functionName.some
                    THEN excArg.stack.sites[i].functionName.v
                    ELSE AnonymousName)
            /\ raised.frames[i].file = excArg.stack.sites[i].fileName
            /\ raised.frames[i].line = -2 <=> ~excArg.stack.sites[i].fileName.some
            /\ raised.frames[i].line = -1
                   <=> /\ excArg.stack.sites[i].fileName.some
                       /\ ~(/\ excArg.stack.sites[i].lineNumber.some
                            /\ excArg.stack.sites[i].lineNumber.v >= 1)
            /\ raised.frames[i].line \notin {-1, -2}
                   => /\ raised.frames[i].line = excArg.stack.sites[i].lineNumber.v
                      /\ raised.frames[i].line >= 1

\* one frame without a file name and one with a file name and no line, from
\* call sites that have a line number of 7 and of 0
C29_Witness ==
    /\ raised.made /\ ReturnsArray /\ WellFormed
    /\ Len(raised.frames) = 2
    /\ raised.frames[1].line = -2 /\ excArg.stack.sites[1].lineNumber = Just(7)
    /\ raised.frames[2].line = -1 /\ excArg.stack.sites[2].lineNumber = Just(0)
    /\ raised.frames[1].name = AnonymousName
    /\ raised.frames[2].type = UnknownName

\* C30: whenever the script exception yields no message (it is no object, or
\* an object without a string "message" property), the message of the new
\* host exception is the exception's string conversion.
C30_MessageFallback ==
    (raised.made /\ (~excArg.isObject \/ ~excArg.message.some))
        => raised.message = GenericString(excArg)


(***************************************************************************)
(* Properties of the engine lock.                                          *)
(***************************************************************************)
\* thread t is reading or writing the module cache or the registry
InMaps(t) == threads[t].pc \in {"maps", "nested", "registering"}

\* C24: every access to the module cache and to the registry of native
\* modules (registerModule, registerJavaModule / registerModuleNative, the
\* lookup and the writes inside require) happens while the calling thread
\* holds the engine lock, so no two threads are in them at the same time.
C24_MapsUnderLock ==
    /\ \A t \in Threads : InMaps(t) => lockOwner = t
    /\ \A t, u \in Threads : (InMaps(t) /\ InMaps(u)) => t = u

\* thread t is between the construction and the destruction of the
\* v8::Locker of parseJSON, require or runScript
InOperation(t) ==
    threads[t].pc \in {"locked", "maps", "script", "nested", "bridge", "convert"}

\* C25: require, parseJSON and runScript hold the engine lock from before
\* they touch the engine until the result is converted or the script
\* exception is bridged, so at most one thread executes script code or the
\* inbound bridge at any time.
C25_LockHeldThroughout ==
    /\ \A t \in Threads : InOperation(t) => lockOwner = t
    /\ \A t, u \in Threads : (InOperation(t) /\ InOperation(u)) => t = u
    /\ lockOwner # 0 => InOperation(lockOwner) \/ Aborted

\* one thread is in the inbound bridge while another waits for the lock
C25_Witness ==
    \E t, u \in Threads :
        /\ threads[t].pc = "bridge" /\ lockOwner = t
        /\ threads[u].pc = "waiting"

(***************************************************************************)
(* Properties of the cache keys and of the resolution fallbacks.           *)
(***************************************************************************)
\* the call that returned last loaded a script file whose name differs from
\* the id the call looked up in the cache on line 609
LoadedUnderOtherName ==
    /\ lastRet.ret.kind = "script"
    /\ lastRet.ret.file # lastRet.ret.base

\* C31: both spellings are cached: once require(id) has loaded a script
\* module from a file f whose name differs from id, the cache holds an entry
\* under f and an entry under id, so that a later require by either spelling
\* ends at a cache check before it reads any file.
C31_BothSpellingsCached ==
    LoadedUnderOtherName
        => Cached(lastRet.ret.file) /\ Cached(lastRet.ret.base)

\* the package.json of the directory id parses and has a main field, the file
\* id/main is absent and the file id/main.js is present
MainWithoutExtension(id) ==
    /\ ~loadFile(id)
    /\ loadFile(id \o PackageJson)
    /\ parseJSON(id \o PackageJson)
    /\ files[id \o PackageJson].hasMain
    /\ ~loadFile(MainOf(id))
    /\ loadFile(MainOf(id) \o ExtJs)

\* the call that returned last began with its id neither cached nor
\* registered, so that it went on to the files
WentToFiles ==
    /\ lastRet.ret.kind \notin {"init", "abort"}
    /\ ~lastRet.ret.pre.cached
    /\ ~lastRet.ret.pre.registered

\* C32: the main target of a package.json is probed with the ".js"
\* extension: when id/package.json has a main field m, the file id/m is
\* absent and id/m.js is present, require(id) loads id/m.js and does not fail.
C32_MainExtensionProbe ==
    (WentToFiles /\ MainWithoutExtension(lastRet.ret.base))
        => /\ lastRet.ret.kind # "notfound"
           /\ lastRet.ret.file = MainOf(lastRet.ret.base) \o ExtJs

\* segments without a "." and without a ".." after the first
CanonicalParts(parts) ==
    \A j \in DOMAIN parts : parts[j] # Dot /\ (parts[j] = DotDot => j = 1)

\* a path without a "." segment and without a ".." segment after the first
Canonical(p) == CanonicalParts(SplitPath(p))

\* the cache keys made for file modules
FileKeys == {k \in DOMAIN cache : cache[k].by \in {"exports", "assigned"}}

RECURSIVE LexicalFrom(_, _, _)
LexicalFrom(parts, j, kept) ==
    IF j > Len(parts) THEN kept
    ELSE IF parts[j] = Dot THEN LexicalFrom(parts, j + 1, kept)
    ELSE IF parts[j] = DotDot /\ kept # <<>> /\ Ordinary(kept[Len(kept)])
         THEN LexicalFrom(parts, j + 1, SubSeq(kept, 1, Len(kept) - 1))
         ELSE LexicalFrom(parts, j + 1, Append(kept, parts[j]))

\* the segments joined by '/'
RECURSIVE JoinPath(_)
JoinPath(parts) ==
    IF parts = <<>> THEN <<>>
    ELSE IF Len(parts) = 1 THEN parts[1]
    ELSE parts[1] \o Slash \o JoinPath(Tail(parts))

\* the lexical normal form of the path p
Lexical(p) == JoinPath(LexicalFrom(SplitPath(p), 1, <<>>))

\* C34: normalize agrees with lexical POSIX normalization: for every relative
\* path p, normalize(p) is the result of processing the segments of p left to
\* right with a stack (drop ".", let ".." pop the previous ordinary segment,
\* keep a leading ".."), for paths of a single segment, paths with adjacent
\* ".." segments and paths that end in "." or ".." as well.
C34_AgreesWithLexical ==
    Len(normalized) >= 1 => normalized[1] = Lexical(pathArg)

(***************************************************************************)
(* Properties of the exact-file hit.                                       *)
(***************************************************************************)
\* the string s ends with the string suffix
HasSuffix(s, suffix) ==
    /\ Len(s) >= Len(suffix)
    /\ SubSeq(s, Len(s) - Len(suffix) + 1, Len(s)) = suffix

\* the call that returned last found the file named exactly by its id
ExactHit == WentToFiles /\ loadFile(lastRet.ret.base)

\* C35: JSON detection of an exact-file hit: when the file named exactly by
\* the requested id exists, its content is parsed as JSON if and only if the
\* id ends with ".json", whatever the length of the id (ids shorter than five
\* characters included) and however often ".json" occurs in it; otherwise the
\* content is evaluated as a script module.
C35_JsonIffSuffix ==
    ExactHit
        => (lastRet.ret.kind \in {"json", "jsonfail"}
                <=> HasSuffix(lastRet.ret.base, ExtJson))

(***************************************************************************)
(* Properties of the cache entries.                                        *)
(***************************************************************************)
\* C36: cache entries are write-once: once a key has an entry in the module
\* cache, no step changes the value of the entry or removes it, so a value
\* require returned for a key stays the value cached for that key, also when
\* a module body re-enters require for its own file before its first
\* evaluation has completed.
C36_WriteOnce ==
    [][\A k \in DOMAIN cache : k \in DOMAIN cache' /\ cache'[k] = cache[k]]_vars

\* the call that returned last was a load that faulted: the registration
\* callback of a native module raised, JSON.parse rejected the text, or the
\* body of a script module raised
LoadFaulted ==
    /\ lastRet.ret.kind \in {"native", "jsonfail", "evalfail"}
    /\ lastRet.ret.exc # None

\* C37: a failed load never populates the cache: when the load of a module of
\* any kind faults, require reports failure and the cache holds no entry for
\* the module afterwards, so that a later require runs the load again.
C37_FailedLoadNotCached ==
    LoadFaulted
        => /\ lastRet.ret.value = NoValue
           /\ ~Cached(lastRet.ret.file)

(***************************************************************************)
(* Properties of require on degenerate paths.                              *)
(***************************************************************************)
\* C38: normalize and require are total on degenerate paths: normalize
\* returns a string for every input, the empty string included, so that
\* require("./") ends in an ordinary outcome, a value or a module-not-found
\* failure, and never with an out-of-range access that aborts the operation.
C38_TotalOnDegeneratePaths ==
    (lastRet.ret.kind # "init" /\ lastRet.ret.arg = DotSlash)
        => /\ lastRet.ret.base # OutOfRange
           /\ lastRet.ret.kind # "abort"

(***************************************************************************)
(* Properties of the bring-up of the scripting runtime.                    *)
(***************************************************************************)
\* C39: one-time platform initialisation: across any number of
\* createContext calls made from any threads, the process-wide bring-up of
\* the runtime runs exactly once, and it has completed before any engine
\* creates its isolate.
C39_PlatformOnce ==
    /\ bringUps <= 1
    /\ \A j \in DOMAIN isolates : isolates[j].ready /\ bringUps = 1

(***************************************************************************)
(* Properties of the animation frame globals.                              *)
(***************************************************************************)
\* the calls of requestAnimationFrame so far
Requests ==
    {j \in DOMAIN frameCalls : frameCalls[j].fn = "requestAnimationFrame"}

\* C40: requestAnimationFrame returns the scheduler's id: called with a
\* function and a view object, the value the script sees is the integer id
\* the requestAnimationFrame method of the host view returned, so that
\* cancelAnimationFrame with the returned value cancels that request; -1 is
\* returned only when no request was scheduled.
C40_ReturnsSchedulerId ==
    \A j \in Requests :
        /\ frameCalls[j].wellFormed => frameCalls[j].ret = Int32Slot(frameCalls[j].id)
        /\ frameCalls[j].ret = Int32Slot(-1) => ~frameCalls[j].wellFormed

====
